---- MODULE Spec2Model ----
(***************************************************************************)
(* Verification model of the audio analysis core of ortho: the voicing     *)
(* hysteresis, the duration accumulator, the vowel smoothing window, the   *)
(* stateless detectors and the capture loop that composes them.            *)
(*                                                                         *)
(* Units.  Samples are integers in thousandths (1 = 0.001); volumes and    *)
(* energies are in units of 0.0001; pitch is in tenths of a hertz.  Times  *)
(* are integers in milliseconds; the code's dt is                          *)
(* (timestamp - lastTimestamp) / 1000 seconds, kept here as the same       *)
(* number of milliseconds.  Smoothing weights are integers in thousandths. *)
(***************************************************************************)
EXTENDS Integers, Sequences, FiniteSets, TLC

NULL == "null"
\* detectPitch returns number | null; frequencies are positive, and null is -1.
NO_PITCH == -1
\* computeMfcc returns Float64Array | null; null is the empty vector.
NO_MFCC == <<>>
\* animationFrameId is number | null; request ids are positive, and null is 0.
NO_ID == 0

\* The vowel catalogue of types.ts ("E" stands for the open e).
Vowel == {"a", "e", "E", "i", "o", "u", "y"}

\* Sum of f over the indices 1..n.
SumTo(f, n) ==
    LET part[i \in 0..n] == IF i = 0 THEN 0 ELSE part[i - 1] + f[i]
    IN  part[n]

-----------------------------------------------------------------------------
(* Bounds of the model *)

\* Frames fed to updateVoicing in SpecVoicing.
MaxFrames == 13
\* Frames fed to trackDuration in SpecDuration.
MaxDurFrames == 5
\* Detections fed to smoothVowel in SpecSmooth.
MaxSmoothCalls == 8

\* Vowels the raw detections are drawn from.
ModelVowels == {"a", "i"}
\* Frame intervals in milliseconds (0 is the dt of a session's first frame).
DtValues == {0, 16, 100}
\* Frames fed to the pipeline in SpecAnalyze, and their intervals.
MaxPipelineFrames == 5
MaxHoldFrames == 8
\* Capture: animation-frame requests made in a run, and start() calls that
\* may await the microphone at once.
MaxRequests == 5
MaxPending == 2
FrameDts == {0, 16}
\* Router: mount and unmount calls recorded in a run, and hashchange events
\* that may be queued at once.
MaxRouterCalls == 7
MaxHashChanges == 2

-----------------------------------------------------------------------------
(* voicing.ts *)

ONSET_FRAMES == 3
OFFSET_FRAMES == 5

initialVoicingState == [isVoicing |-> FALSE, framesAbove |-> 0, framesBelow |-> 0]

\* Mutant: the onset keeps the onset counter instead of resetting it.
updateVoicingKeepsOnsetCount(rawVoicing, state) ==
    IF state.isVoicing
    THEN IF ~rawVoicing
         THEN IF state.framesBelow + 1 >= OFFSET_FRAMES
              THEN [isVoicing |-> FALSE, framesAbove |-> 0, framesBelow |-> 0]
              ELSE [isVoicing |-> TRUE, framesAbove |-> 0,
                    framesBelow |-> state.framesBelow + 1]
         ELSE [isVoicing |-> TRUE, framesAbove |-> 0, framesBelow |-> 0]
    ELSE IF rawVoicing
         THEN IF state.framesAbove + 1 >= ONSET_FRAMES
              THEN [isVoicing |-> TRUE, framesAbove |-> state.framesAbove + 1,
                    framesBelow |-> 0]
              ELSE [isVoicing |-> FALSE, framesAbove |-> state.framesAbove + 1,
                    framesBelow |-> 0]
         ELSE [isVoicing |-> FALSE, framesAbove |-> 0, framesBelow |-> 0]

\* Mutant: the two thresholds are exchanged.
updateVoicingSwappedThresholds(rawVoicing, state) ==
    IF state.isVoicing
    THEN IF ~rawVoicing
         THEN IF state.framesBelow + 1 >= ONSET_FRAMES
              THEN [isVoicing |-> FALSE, framesAbove |-> 0, framesBelow |-> 0]
              ELSE [isVoicing |-> TRUE, framesAbove |-> 0,
                    framesBelow |-> state.framesBelow + 1]
         ELSE [isVoicing |-> TRUE, framesAbove |-> 0, framesBelow |-> 0]
    ELSE IF rawVoicing
         THEN IF state.framesAbove + 1 >= OFFSET_FRAMES
              THEN [isVoicing |-> TRUE, framesAbove |-> 0, framesBelow |-> 0]
              ELSE [isVoicing |-> FALSE, framesAbove |-> state.framesAbove + 1,
                    framesBelow |-> 0]
         ELSE [isVoicing |-> FALSE, framesAbove |-> 0, framesBelow |-> 0]

\* Mutant: onset compared with > instead of >=.
updateVoicingLateOnset(rawVoicing, state) ==
    IF state.isVoicing
    THEN IF ~rawVoicing
         THEN IF state.framesBelow + 1 >= OFFSET_FRAMES
              THEN [isVoicing |-> FALSE, framesAbove |-> 0, framesBelow |-> 0]
              ELSE [isVoicing |-> TRUE, framesAbove |-> 0,
                    framesBelow |-> state.framesBelow + 1]
         ELSE [isVoicing |-> TRUE, framesAbove |-> 0, framesBelow |-> 0]
    ELSE IF rawVoicing
         THEN IF state.framesAbove + 1 > ONSET_FRAMES
              THEN [isVoicing |-> TRUE, framesAbove |-> 0, framesBelow |-> 0]
              ELSE [isVoicing |-> FALSE, framesAbove |-> state.framesAbove + 1,
                    framesBelow |-> 0]
         ELSE [isVoicing |-> FALSE, framesAbove |-> 0, framesBelow |-> 0]

\* Mutant: a raw-true frame while voicing does not reset the offset counter.
updateVoicingNoOffsetReset(rawVoicing, state) ==
    IF state.isVoicing
    THEN IF ~rawVoicing
         THEN IF state.framesBelow + 1 >= OFFSET_FRAMES
              THEN [isVoicing |-> FALSE, framesAbove |-> 0, framesBelow |-> 0]
              ELSE [isVoicing |-> TRUE, framesAbove |-> 0,
                    framesBelow |-> state.framesBelow + 1]
         ELSE [isVoicing |-> TRUE, framesAbove |-> 0,
               framesBelow |-> state.framesBelow]
    ELSE IF rawVoicing
         THEN IF state.framesAbove + 1 >= ONSET_FRAMES
              THEN [isVoicing |-> TRUE, framesAbove |-> 0, framesBelow |-> 0]
              ELSE [isVoicing |-> FALSE, framesAbove |-> state.framesAbove + 1,
                    framesBelow |-> 0]
         ELSE [isVoicing |-> FALSE, framesAbove |-> 0, framesBelow |-> 0]

updateVoicing(rawVoicing, state) ==
    IF state.isVoicing
    THEN IF ~rawVoicing
         THEN LET framesBelow == state.framesBelow + 1
              IN  IF framesBelow >= OFFSET_FRAMES
                  THEN [isVoicing |-> FALSE, framesAbove |-> 0, framesBelow |-> 0]
                  ELSE [isVoicing |-> TRUE, framesAbove |-> 0,
                        framesBelow |-> framesBelow]
         ELSE [isVoicing |-> TRUE, framesAbove |-> 0, framesBelow |-> 0]
    ELSE IF rawVoicing
         THEN LET framesAbove == state.framesAbove + 1
              IN  IF framesAbove >= ONSET_FRAMES
                  THEN [isVoicing |-> TRUE, framesAbove |-> 0, framesBelow |-> 0]
                  ELSE [isVoicing |-> FALSE, framesAbove |-> framesAbove,
                        framesBelow |-> 0]
         ELSE [isVoicing |-> FALSE, framesAbove |-> 0, framesBelow |-> 0]

-----------------------------------------------------------------------------
(* duration.ts *)

initialDurationState == [isVoicing |-> FALSE, currentDuration |-> 0]

\* Mutant: an unvoiced frame keeps the accumulated duration.
trackDurationNoReset(isVoicing, dt, state) ==
    IF isVoicing
    THEN [isVoicing |-> TRUE, currentDuration |-> state.currentDuration + dt]
    ELSE [isVoicing |-> FALSE, currentDuration |-> state.currentDuration]

trackDuration(isVoicing, dt, state) ==
    IF isVoicing
    THEN [isVoicing |-> TRUE, currentDuration |-> state.currentDuration + dt]
    ELSE [isVoicing |-> FALSE, currentDuration |-> 0]

-----------------------------------------------------------------------------
(* smoothing.ts *)

WINDOW_SIZE == 7

\* [0.37, 0.44, 0.52, 0.61, 0.72, 0.85, 1.0] in thousandths, oldest first.
WEIGHTS == <<370, 440, 520, 610, 720, 850, 1000>>

\* 1.5 in thousandths.
MIN_WEIGHTED_CONSENSUS == 1500

initialVowelSmoothingState == [buffer |-> <<>>]

\* The code adds IEEE-754 doubles.  Over all sums of WEIGHTS the double result
\* orders and compares with 1.5 as the decimal sum does, except
\* (0.52 + 0.61) + 0.72, which evaluates to 1.8499999999999999 and so lies
\* below 0.85 + 1.0 = 1.85.
FloatAdd(sum, w) == IF sum = 1130 /\ w = 720 THEN 1849 ELSE sum + w

\* Mutant: a full window evicts its newest entry.
PushWindowEvictNewest(rawVowel, buffer) ==
    IF Len(buffer) >= WINDOW_SIZE
    THEN Append(SubSeq(buffer, 1, Len(buffer) - 1), rawVowel)
    ELSE Append(buffer, rawVowel)

\* The window after pushing rawVowel (the oldest entry is evicted when full).
PushWindow(rawVowel, buffer) ==
    IF Len(buffer) >= WINDOW_SIZE
    THEN Append(Tail(buffer), rawVowel)
    ELSE Append(buffer, rawVowel)

\* Mutant: the weights are aligned on the oldest entry of the window.
WeightedCountLeftAligned(buffer, v) ==
    LET acc[i \in 0..Len(buffer)] ==
            IF i = 0 THEN 0
            ELSE IF buffer[i] = v THEN FloatAdd(acc[i - 1], WEIGHTS[i])
                 ELSE acc[i - 1]
    IN  acc[Len(buffer)]

\* weightedCounts.get(v) after the loop over the window.
WeightedCount(buffer, v) ==
    LET offset == WINDOW_SIZE - Len(buffer)
        acc[i \in 0..Len(buffer)] ==
            IF i = 0 THEN 0
            ELSE IF buffer[i] = v THEN FloatAdd(acc[i - 1], WEIGHTS[i + offset])
                 ELSE acc[i - 1]
    IN  acc[Len(buffer)]

\* The keys of weightedCounts in insertion order (first occurrence in the window).
WeightedKeys(buffer) ==
    LET keys[i \in 0..Len(buffer)] ==
            IF i = 0 THEN <<>>
            ELSE IF buffer[i] = NULL
                    \/ \E j \in 1..Len(keys[i - 1]) : keys[i - 1][j] = buffer[i]
                 THEN keys[i - 1]
                 ELSE Append(keys[i - 1], buffer[i])
    IN  keys[Len(buffer)]

\* The (bestVowel, bestScore) pair after the scan of weightedCounts.
BestOfWindow(buffer) ==
    LET keys == WeightedKeys(buffer)
        best[i \in 0..Len(keys)] ==
            IF i = 0 THEN [vowel |-> keys[1], score |-> 0]
            ELSE LET score == WeightedCount(buffer, keys[i])
                 IN  IF score > best[i - 1].score
                     THEN [vowel |-> keys[i], score |-> score]
                     ELSE best[i - 1]
    IN  best[Len(keys)]

\* Mutant: the uniform three-entry consensus of the earlier smoother.
smoothVowelUniform(rawVowel, state) ==
    LET buffer == PushWindow(rawVowel, state.buffer)
        count(v) == Cardinality({i \in 1..Len(buffer) : buffer[i] = v})
        winners == {v \in Vowel : count(v) >= 3
                                  /\ \A u \in Vowel : count(u) <= count(v)}
    IN  [vowel |-> IF winners = {} THEN NULL ELSE CHOOSE v \in winners : TRUE,
         state |-> [buffer |-> buffer]]

smoothVowel(rawVowel, state) ==
    LET buffer == PushWindow(rawVowel, state.buffer)
    IN  IF WeightedKeys(buffer) = <<>>
        THEN [vowel |-> NULL, state |-> [buffer |-> buffer]]
        ELSE LET best == BestOfWindow(buffer)
             IN  [vowel |-> IF best.score >= MIN_WEIGHTED_CONSENSUS
                            THEN best.vowel ELSE NULL,
                  state |-> [buffer |-> buffer]]

-----------------------------------------------------------------------------
(* Audio buffers *)

\* A Float32Array is described by its length and its waveform: the constant
\* amp when period = 0 (all zeros when amp = 0), and otherwise a square wave of
\* that period in samples, amp over the first half of each cycle and -amp over
\* the second.  The fields lpc and cep carry what the spectral analysis of the
\* samples (FFT, LPC envelope and rank fusion; mel filterbank and DCT) yields
\* on that signal once the energy gate is passed.
Sample(buffer, i) ==
    IF buffer.period = 0 THEN buffer.amp
    ELSE IF 2 * (i % buffer.period) < buffer.period THEN buffer.amp
         ELSE 0 - buffer.amp

\* Sum of f(i) over lo <= i < hi, halving the range.
RECURSIVE SumRange(_, _, _)
SumRange(f(_), lo, hi) ==
    IF hi <= lo THEN 0
    ELSE IF hi = lo + 1 THEN f(lo)
         ELSE LET mid == (lo + hi) \div 2
              IN  SumRange(f, lo, mid) + SumRange(f, mid, hi)

\* The sequence <<f(0), ..., f(n - 1)>>, every entry computed once.
Tabulate(f(_), n) == SubSeq([i \in 1..n |-> f(i - 1)], 1, n)

\* const FFT_SIZE = 2048 (capture.ts); FRAME_SIZE = 1024 (the test harness).
FFT_SIZE == 2048
FRAME_SIZE == 1024

\* Sample rates: the two common capture rates, and two low rates at which
\* short buffers are long enough for the pitch detector.
ModelRates == <<2000, 2400, 44100, 48000>>

\* Silence, a quiet constant, square waves of 10 samples below, at and above
\* the energy threshold, a 300 Hz square wave at 44100 Hz, and a square wave
\* too slow for the pitch band.
ModelWaveforms ==
    <<[len |-> 1, amp |-> 0, period |-> 0],
      [len |-> 64, amp |-> 0, period |-> 0],
      [len |-> FRAME_SIZE, amp |-> 0, period |-> 0],
      [len |-> FFT_SIZE, amp |-> 0, period |-> 0],
      [len |-> 64, amp |-> 5, period |-> 0],
      [len |-> 64, amp |-> 5, period |-> 10],
      [len |-> 64, amp |-> 10, period |-> 10],
      [len |-> 64, amp |-> 20, period |-> 10],
      [len |-> FRAME_SIZE, amp |-> 20, period |-> 147],
      [len |-> FFT_SIZE, amp |-> 20, period |-> 147],
      [len |-> FFT_SIZE, amp |-> 20, period |-> 2000]>>

Waveform(buffer) ==
    [len |-> buffer.len, amp |-> buffer.amp, period |-> buffer.period]

\* Largest r with r * r <= n.
RECURSIVE ISqrtBetween(_, _, _)
ISqrtBetween(n, lo, hi) ==
    IF lo = hi THEN lo
    ELSE LET mid == (lo + hi + 1) \div 2
         IN  IF mid * mid <= n THEN ISqrtBetween(n, mid, hi)
             ELSE ISqrtBetween(n, lo, mid - 1)

ISqrt(n) == ISqrtBetween(n, 0, IF n < 46340 THEN n ELSE 46340)

\* sum(x[i]^2) for i < length.
SumOfSquares(buffer) ==
    LET square(i) == Sample(buffer, i) * Sample(buffer, i)
    IN  SumRange(square, 0, buffer.len)

\* Math.sqrt(sum / length) in units of 0.0001, rounded down.
RootMeanSquareOf(buffer) == ISqrt((SumOfSquares(buffer) * 100) \div buffer.len)

\* RootMeanSquareOf on every model waveform, computed once.
RmsTable ==
    [k \in 1..Len(ModelWaveforms) |-> RootMeanSquareOf(ModelWaveforms[k])]

\* RootMeanSquareOf(buffer), read from RmsTable when it is there.
RootMeanSquare(buffer) ==
    CHOOSE rms \in
        {IF at = {} THEN RootMeanSquareOf(buffer)
         ELSE RmsTable[CHOOSE k \in at : TRUE] :
            at \in {{k \in 1..Len(ModelWaveforms) :
                        ModelWaveforms[k] = Waveform(buffer)}}} : TRUE

-----------------------------------------------------------------------------
(* volume.ts *)

\* Returns the volume in units of 0.0001 (10000 = 1.0).
computeRMS(buffer) ==
    IF buffer.len = 0 THEN 0
    ELSE LET rms == RootMeanSquare(buffer)
         IN  IF rms > 10000 THEN 10000 ELSE IF rms < 0 THEN 0 ELSE rms

-----------------------------------------------------------------------------
(* pitch.ts *)

\* 0.15, in hundredths.
YIN_THRESHOLD == 15
MIN_FREQUENCY == 80
MAX_FREQUENCY == 600

\* Values of the normalized difference are fixed-point numbers in units of
\* 1/CmndfOne (the code keeps them in a Float32Array).
CmndfOne == 16384

Min(a, b) == IF a < b THEN a ELSE b
Max(a, b) == IF a > b THEN a ELSE b

\* diff as a sequence: diff[tau + 1] is the code's diff[tau].
computeDifference(buffer, maxLag) ==
    LET halfLen == Min(buffer.len \div 2, maxLag)
        d(tau) ==
            LET squaredDelta(i) ==
                    LET delta == Sample(buffer, i) - Sample(buffer, i + tau)
                    IN  delta * delta
            IN  SumRange(squaredDelta, 0, halfLen)
    IN  Tabulate(d, halfLen)

\* floor(CmndfOne * a / b) for a >= 0, b > 0, by binary long division.
RECURSIVE FixedDigits(_, _, _, _)
FixedDigits(r, b, scale, acc) ==
    IF scale = 1 THEN acc
    ELSE FixedDigits((r * 2) % b, b, scale \div 2, acc * 2 + (r * 2) \div b)

FixedRatio(a, b) == FixedDigits(a % b, b, CmndfOne, a \div b)

\* cmndf as a sequence: cmndf[tau + 1] is the code's normalized[tau].
cumulativeMeanNormalize(diff) ==
    LET entry(j) == diff[j + 1]
        running == LET sumTo(tau) == SumRange(entry, 1, tau + 1)
                   IN  Tabulate(sumTo, Len(diff))
        normalized(tau) ==
            IF tau = 0 THEN CmndfOne
            ELSE IF running[tau + 1] = 0 THEN 0
                 ELSE FixedRatio(diff[tau + 1] * tau, running[tau + 1])
    IN  Tabulate(normalized, Len(diff))

\* The first lag from minLag on whose value is below the threshold, walked
\* forward to the local minimum of that dip; -1 when there is none.
findThresholdLag(cmndf, minLag, threshold) ==
    LET below == {tau \in minLag..(Len(cmndf) - 2) :
                     cmndf[tau + 1] * 100 < threshold * CmndfOne}
    IN  IF below = {} THEN -1
        ELSE LET first == CHOOSE tau \in below : \A other \in below : tau <= other
                 stops == {tau \in first..(Len(cmndf) - 1) :
                              ~(tau + 1 < Len(cmndf)
                                /\ cmndf[tau + 2] < cmndf[tau + 1])}
             IN  CHOOSE tau \in stops : \A other \in stops : tau <= other

\* The refined lag in thousandths of a sample.
parabolicInterpolation(cmndf, lag) ==
    IF lag <= 0 \/ lag >= Len(cmndf) - 1 THEN lag * 1000
    ELSE LET alpha == cmndf[lag]
             beta == cmndf[lag + 1]
             gamma == cmndf[lag + 2]
             denominator == 2 * (alpha - 2 * beta + gamma)
         IN  \* a zero denominator makes peak NaN or infinite
             IF denominator = 0 THEN lag * 1000
             ELSE IF denominator > 0
                  THEN lag * 1000 + ((alpha - gamma) * 1000) \div denominator
                  ELSE lag * 1000 + ((gamma - alpha) * 1000) \div (0 - denominator)

\* Mutant: the final range check admits the band's upper edge only strictly.
detectPitchOpenBand(buffer, sampleRate) ==
    IF buffer.len < 2 THEN NO_PITCH
    ELSE LET maxLag == sampleRate \div MIN_FREQUENCY
             minLag == sampleRate \div MAX_FREQUENCY
         IN  IF buffer.len < 2 * maxLag THEN NO_PITCH
             ELSE LET cmndf == cumulativeMeanNormalize(computeDifference(buffer, maxLag))
                      lag == findThresholdLag(cmndf, minLag, YIN_THRESHOLD)
                  IN  IF lag = -1 THEN NO_PITCH
                      ELSE LET refinedLag == parabolicInterpolation(cmndf, lag)
                           IN  IF refinedLag <= 0 THEN NO_PITCH
                               ELSE IF sampleRate * 1000 < MIN_FREQUENCY * refinedLag
                                       \/ sampleRate * 1000 >= MAX_FREQUENCY * refinedLag
                                    THEN NO_PITCH
                                    ELSE (sampleRate * 10000) \div refinedLag

\* Mutant: the length guard asks for maxLag samples only.
detectPitchHalfGuard(buffer, sampleRate) ==
    IF buffer.len < 2 THEN NO_PITCH
    ELSE LET maxLag == sampleRate \div MIN_FREQUENCY
             minLag == sampleRate \div MAX_FREQUENCY
         IN  IF buffer.len < maxLag THEN NO_PITCH
             ELSE LET cmndf == cumulativeMeanNormalize(computeDifference(buffer, maxLag))
                      lag == findThresholdLag(cmndf, minLag, YIN_THRESHOLD)
                  IN  IF lag = -1 THEN NO_PITCH
                      ELSE LET refinedLag == parabolicInterpolation(cmndf, lag)
                           IN  IF refinedLag <= 0 THEN NO_PITCH
                               ELSE IF sampleRate * 1000 < MIN_FREQUENCY * refinedLag
                                       \/ sampleRate * 1000 > MAX_FREQUENCY * refinedLag
                                    THEN NO_PITCH
                                    ELSE (sampleRate * 10000) \div refinedLag

\* Mutant: no final range check.
detectPitchNoRangeCheck(buffer, sampleRate) ==
    IF buffer.len < 2 THEN NO_PITCH
    ELSE LET maxLag == sampleRate \div MIN_FREQUENCY
             minLag == sampleRate \div MAX_FREQUENCY
         IN  IF buffer.len < 2 * maxLag THEN NO_PITCH
             ELSE LET cmndf == cumulativeMeanNormalize(computeDifference(buffer, maxLag))
                      lag == findThresholdLag(cmndf, minLag, YIN_THRESHOLD)
                  IN  IF lag = -1 THEN NO_PITCH
                      ELSE LET refinedLag == parabolicInterpolation(cmndf, lag)
                           IN  IF refinedLag <= 0 THEN NO_PITCH
                               ELSE (sampleRate * 10000) \div refinedLag

\* Returns the frequency in tenths of a hertz, or NO_PITCH.
detectPitch(buffer, sampleRate) ==
    IF buffer.len < 2 THEN NO_PITCH
    ELSE LET maxLag == sampleRate \div MIN_FREQUENCY
             minLag == sampleRate \div MAX_FREQUENCY
         IN  IF buffer.len < 2 * maxLag THEN NO_PITCH
             ELSE LET cmndf == cumulativeMeanNormalize(computeDifference(buffer, maxLag))
                      lag == findThresholdLag(cmndf, minLag, YIN_THRESHOLD)
                  IN  IF lag = -1 THEN NO_PITCH
                      ELSE LET refinedLag == parabolicInterpolation(cmndf, lag)
                           IN  IF refinedLag <= 0 THEN NO_PITCH
                               ELSE IF sampleRate * 1000 < MIN_FREQUENCY * refinedLag
                                       \/ sampleRate * 1000 > MAX_FREQUENCY * refinedLag
                                    THEN NO_PITCH
                                    ELSE (sampleRate * 10000) \div refinedLag

-----------------------------------------------------------------------------
(* dsp.ts *)

\* 0.01, in units of 0.0001.
ENERGY_THRESHOLD == 100

\* The unclamped RMS of dsp.ts, for a buffer of at least one sample.
computeRMS_dsp(buffer) == RootMeanSquare(buffer)

-----------------------------------------------------------------------------
(* vowelTargets.ts *)

VOWEL_TARGETS ==
    <<[vowel |-> "a", f1 |-> 700, f2 |-> 1300, f3 |-> 2550],
      [vowel |-> "e", f1 |-> 380, f2 |-> 2100, f3 |-> 2700],
      [vowel |-> "E", f1 |-> 550, f2 |-> 1800, f3 |-> 2600],
      [vowel |-> "i", f1 |-> 270, f2 |-> 2300, f3 |-> 3100],
      [vowel |-> "o", f1 |-> 380, f2 |-> 700, f3 |-> 2500],
      [vowel |-> "u", f1 |-> 310, f2 |-> 700, f3 |-> 2200],
      [vowel |-> "y", f1 |-> 260, f2 |-> 1800, f3 |-> 2100]>>

\* The position of a vowel in VOWEL_TARGETS.
TargetIndex(v) == CHOOSE k \in 1..Len(VOWEL_TARGETS) : VOWEL_TARGETS[k].vowel = v

\* 13 * atan(0.00076 * hz) + 3.5 * atan((hz / 7500)^2), in hundredths of a
\* Bark, on the frequencies the model uses: the targets' formants and the
\* envelope peaks of the model.
BarkTable ==
    (260 :> 254) @@ (270 :> 264) @@ (310 :> 301) @@ (380 :> 366) @@
    (470 :> 447) @@ (550 :> 517) @@ (700 :> 639) @@ (1300 :> 1024) @@
    (1800 :> 1242) @@ (2100 :> 1342) @@ (2200 :> 1371) @@ (2300 :> 1399) @@
    (2500 :> 1451) @@ (2550 :> 1463) @@ (2600 :> 1475) @@ (2700 :> 1498) @@
    (3100 :> 1579)

hzToBark(hz) == BarkTable[hz]

Abs(x) == IF x < 0 THEN 0 - x ELSE x

-----------------------------------------------------------------------------
(* scoring.ts and detectLpc.ts: eligibility and rank fusion *)

\* What detectVowel derives from the LPC envelope of a frame:
\*   peaks      the frequencies (Hz) findPeaksByDerivative returns;
\*   ratio      bandEnergyRatio(centerHz) in thousandths, per target formant;
\*   band       the scores of scoreByBandEnergy, per vowel;
\*   template   the scores of the guided template matching, per vowel.

\* let nearestDist = Infinity, as a distance no peak reaches.
Infinity == 1000000

\* 1.5 and 2.0 Bark, in hundredths.
MAX_BARK_F1 == 150
MAX_BARK_F2 == 200

\* The energy floors 0.08 and 0.04, in thousandths.
F1_ENERGY_FLOOR == 80
F2_ENERGY_FLOOR == 40

\* min over the peaks of |hzToBark(peak.freq) - targetB|.
nearestDist(peaks, targetB) ==
    IF peaks = {} THEN Infinity
    ELSE LET dists == {Abs(hzToBark(p) - targetB) : p \in peaks}
         IN  CHOOSE d \in dists : \A e \in dists : d <= e

peakGate(env, target) ==
    /\ nearestDist(env.peaks, hzToBark(target.f1)) <= MAX_BARK_F1
    /\ nearestDist(env.peaks, hzToBark(target.f2)) <= MAX_BARK_F2

\* Mutant: either energy floor suffices.
energyGateEither(env, target) ==
    \/ env.ratio[target.f1] > F1_ENERGY_FLOOR
    \/ env.ratio[target.f2] > F2_ENERGY_FLOOR

energyGate(env, target) ==
    /\ env.ratio[target.f1] > F1_ENERGY_FLOOR
    /\ env.ratio[target.f2] > F2_ENERGY_FLOOR

\* const eligible = new Set<Vowel>(), after the loop over VOWEL_TARGETS.
eligible(env) ==
    {VOWEL_TARGETS[k].vowel : k \in
        {j \in 1..Len(VOWEL_TARGETS) :
            peakGate(env, VOWEL_TARGETS[j]) \/ energyGate(env, VOWEL_TARGETS[j])}}

\* scores.sort((a, b) => b.score - a.score): the 0-based position of v after
\* the stable descending sort of the scores pushed in VOWEL_TARGETS order.
RankOf(scores, v) ==
    Cardinality({u \in Vowel :
        \/ scores[u] > scores[v]
        \/ scores[u] = scores[v] /\ TargetIndex(u) < TargetIndex(v)})

\* Math.ceil(a / b) and Math.round(a / b) for a >= 0 and b > 0.
CeilDiv(a, b) == (a + b - 1) \div b
RoundDiv(a, b) == (2 * a + b) \div (2 * b)

\* An envelope is the sequence of its magnitudes, bin 0 first.
\* const n = (envelope.length - 1) * 2; binToHz is sampleRate / n.
FftSizeOf(envelope) == (Len(envelope) - 1) * 2

\* scoreByBandEnergy: const bandWidthHz = 100.
BAND_WIDTH_HZ == 100

\* Math.ceil(bandWidthHz / (2 * binToHz)).
halfBandBins(envelope, sampleRate) ==
    CeilDiv(BAND_WIDTH_HZ * FftSizeOf(envelope), 2 * sampleRate)

\* totalEnergy: the sum of the envelope, or 1 when that sum is 0.
totalEnergy(envelope) ==
    CHOOSE total \in {IF sum = 0 THEN 1 ELSE sum :
                         sum \in {SumTo(envelope, Len(envelope))}} : TRUE

\* The sum of the envelope over the bins lo..hi.
SumBins(envelope, lo, hi) ==
    IF hi < lo THEN 0
    ELSE SumTo([i \in 1..(hi - lo + 1) |-> envelope[lo + i]], hi - lo + 1)

\* Mutant: the band is bandWidthHz wide on either side of the centre.
sumBandFullWidthEachSide(envelope, sampleRate, centerHz) ==
    LET centerBin == RoundDiv(centerHz * FftSizeOf(envelope), sampleRate)
        lo == Max(0, centerBin - 2 * halfBandBins(envelope, sampleRate))
        hi == Min(Len(envelope) - 1,
                  centerBin + 2 * halfBandBins(envelope, sampleRate))
    IN  SumBins(envelope, lo, hi)

\* sumBand(centerHz, weight) before its weight and the division by
\* totalEnergy.
sumBand(envelope, sampleRate, centerHz) ==
    LET centerBin == RoundDiv(centerHz * FftSizeOf(envelope), sampleRate)
        lo == Max(0, centerBin - halfBandBins(envelope, sampleRate))
        hi == Min(Len(envelope) - 1, centerBin + halfBandBins(envelope, sampleRate))
    IN  SumBins(envelope, lo, hi)

\* The scores pushed for VOWEL_TARGETS, in units of 1 / (2 * totalEnergy):
\* sumBand(f1, 2.0) + sumBand(f2, 1.0) + sumBand(f3, 0.5).
bandScores(envelope, sampleRate) ==
    [v \in Vowel |->
        CHOOSE score \in
            {4 * sumBand(envelope, sampleRate, target.f1)
                 + 2 * sumBand(envelope, sampleRate, target.f2)
                 + sumBand(envelope, sampleRate, target.f3) :
                target \in {VOWEL_TARGETS[TargetIndex(v)]}} : TRUE]

\* scoreByBandEnergy: the scores sorted by scores.sort((a, b) => b.score -
\* a.score), as the sequence of {vowel, score} records.
scoreByBandEnergy(envelope, sampleRate) ==
    CHOOSE sorted \in
        {[k \in 1..Cardinality(Vowel) |->
             CHOOSE entry \in {[vowel |-> v, score |-> scores[v]] : v \in Vowel} :
                 RankOf(scores, entry.vowel) = k - 1] :
            scores \in {bandScores(envelope, sampleRate)}} : TRUE

\* 1 / (1 + dist) is positive and decreases with dist; ProximityOne - 2 * dist
\* orders the vowels the same way.
ProximityOne == 100000000

\* scoreByPeakProximity: 0 with fewer than two peaks or a failed peak gate.
scoreByPeakProximity(env) ==
    [v \in Vowel |->
        LET target == VOWEL_TARGETS[TargetIndex(v)]
            d1 == nearestDist(env.peaks, hzToBark(target.f1))
            d2 == nearestDist(env.peaks, hzToBark(target.f2))
            d3 == nearestDist(env.peaks, hzToBark(target.f3))
        IN  IF Cardinality(env.peaks) < 2 THEN 0
            ELSE IF d1 > MAX_BARK_F1 \/ d2 > MAX_BARK_F2 THEN 0
            ELSE ProximityOne - (4 * d1 * d1 + 2 * d2 * d2 + d3 * d3)]

\* The rank triples whose double sum ((1/(10+r1)) + 1/(10+r2)) + 1/(10+r3)
\* rounds one step, or two steps, above the smallest double that the triples
\* of the same exact sum produce.
RoundsOneUp ==
    {<<0, 2, 1>>, <<0, 2, 3>>, <<0, 2, 6>>, <<0, 3, 2>>, <<0, 5, 0>>,
     <<0, 5, 4>>, <<0, 6, 2>>, <<1, 2, 0>>, <<1, 2, 4>>, <<1, 2, 6>>,
     <<1, 3, 5>>, <<1, 5, 1>>, <<1, 5, 3>>, <<1, 5, 4>>, <<1, 5, 6>>,
     <<1, 6, 2>>, <<1, 6, 5>>, <<2, 0, 1>>, <<2, 0, 3>>, <<2, 0, 6>>,
     <<2, 1, 0>>, <<2, 1, 4>>, <<2, 1, 6>>, <<2, 2, 3>>, <<2, 2, 6>>,
     <<2, 4, 1>>, <<2, 4, 3>>, <<2, 4, 4>>, <<2, 4, 6>>, <<2, 5, 3>>,
     <<2, 5, 6>>, <<3, 0, 2>>, <<3, 1, 5>>, <<3, 4, 2>>, <<3, 4, 5>>,
     <<3, 5, 0>>, <<4, 2, 1>>, <<4, 2, 3>>, <<4, 2, 4>>, <<4, 2, 6>>,
     <<4, 3, 2>>, <<4, 3, 5>>, <<4, 5, 0>>, <<4, 5, 1>>, <<4, 5, 3>>,
     <<4, 5, 4>>, <<4, 5, 6>>, <<4, 6, 2>>, <<4, 6, 5>>, <<5, 0, 0>>,
     <<5, 0, 4>>, <<5, 1, 1>>, <<5, 1, 3>>, <<5, 1, 4>>, <<5, 1, 6>>,
     <<5, 2, 3>>, <<5, 2, 6>>, <<5, 3, 0>>, <<5, 4, 0>>, <<5, 4, 1>>,
     <<5, 4, 3>>, <<5, 4, 4>>, <<5, 4, 6>>, <<5, 5, 3>>, <<5, 5, 6>>,
     <<5, 6, 0>>, <<6, 0, 2>>, <<6, 1, 2>>, <<6, 1, 5>>, <<6, 4, 2>>,
     <<6, 4, 5>>, <<6, 5, 0>>}

RoundsTwoUp ==
    {<<0, 3, 5>>, <<0, 5, 3>>, <<0, 5, 6>>, <<0, 6, 5>>, <<3, 0, 5>>,
     <<5, 0, 3>>, <<5, 0, 6>>, <<6, 0, 5>>}

\* 720720 / (10 + rank): 1 / (k + rank) over the common denominator of k = 10
\* and the ranks 0..6.
Reciprocal(rank) == 720720 \div (10 + rank)

\* fusedScores.get(v) after the three rankings were added in the order band,
\* template, proximity: four times the exact sum, plus the rounding step of
\* the double additions, so that two scores compare as the doubles do.
FusedScore(ranks) ==
    4 * (Reciprocal(ranks[1]) + Reciprocal(ranks[2]) + Reciprocal(ranks[3]))
    + (IF ranks \in RoundsTwoUp THEN 2 ELSE IF ranks \in RoundsOneUp THEN 1 ELSE 0)

\* The ranks of v in bandScores, templateScores and proximityScores.
RanksOf(env, v) ==
    <<RankOf(env.band, v), RankOf(env.template, v),
      RankOf(scoreByPeakProximity(env), v)>>

\* The loop over fusedScores: scored holds <<vowel, fused score, position in
\* bandScores>>; the Map is filled in bandScores order, and a later vowel wins
\* only with a strictly greater score.
bestFused(scored) ==
    (CHOOSE s \in scored :
        \A t \in scored : t[2] < s[2] \/ (t[2] = s[2] /\ s[3] <= t[3]))[1]

\* Mutant: the fusion runs over every vowel, eligible or not.
fuseRanksIgnoringEligibility(env, among) ==
    CHOOSE best \in
        {bestFused(scored) : scored \in
            {{<<v, FusedScore(RanksOf(env, v)), RankOf(env.band, v)>> :
                 v \in Vowel}}} : TRUE

\* Reciprocal rank fusion among the eligible vowels.
fuseRanks(env, among) ==
    CHOOSE best \in
        {bestFused(scored) : scored \in
            {{<<v, FusedScore(RanksOf(env, v)), RankOf(env.band, v)>> :
                 v \in among}}} : TRUE

-----------------------------------------------------------------------------
(* detectLpc.ts *)

\* The formant frequencies bandEnergyRatio is asked about.
TargetFormants ==
    {VOWEL_TARGETS[k].f1 : k \in 1..Len(VOWEL_TARGETS)}
        \cup {VOWEL_TARGETS[k].f2 : k \in 1..Len(VOWEL_TARGETS)}

\* The envelope of a clear vowel v: peaks on its first two formants, the band
\* energy around them, and the best band and template scores; with no vowel,
\* an envelope with no peak and no energy around any target.
EnvelopeOf(v) ==
    IF v = NULL
    THEN [peaks |-> {}, ratio |-> [hz \in TargetFormants |-> 0],
          band |-> [u \in Vowel |-> 0], template |-> [u \in Vowel |-> 0]]
    ELSE LET target == VOWEL_TARGETS[TargetIndex(v)]
         IN  [peaks |-> {target.f1, target.f2},
              ratio |-> [hz \in TargetFormants |->
                            IF hz = target.f1 THEN 200
                            ELSE IF hz = target.f2 THEN 100 ELSE 0],
              band |-> [u \in Vowel |-> IF u = v THEN 1 ELSE 0],
              template |-> [u \in Vowel |-> IF u = v THEN 1 ELSE 0]]

\* The envelopes of the model's signals.
ModelEnvelopes ==
    <<EnvelopeOf(NULL), EnvelopeOf("a"), EnvelopeOf("e"), EnvelopeOf("E"),
      EnvelopeOf("i"), EnvelopeOf("o"), EnvelopeOf("u"), EnvelopeOf("y")>>

\* detectVowel from the envelope on: absent with no eligible vowel, else the
\* winner of the rank fusion.
fuseEligible(env) ==
    CHOOSE best \in {IF among = {} THEN NULL ELSE fuseRanks(env, among) :
                        among \in {eligible(env)}} : TRUE

\* fuseEligible on every envelope of ModelEnvelopes, computed once.
FusionTable ==
    [k \in 1..Len(ModelEnvelopes) |-> fuseEligible(ModelEnvelopes[k])]

\* fuseEligible(env), read from FusionTable when it is there.
fuseEligibleTabled(env) ==
    CHOOSE best \in
        {IF at = {} THEN fuseEligible(env)
         ELSE FusionTable[CHOOSE k \in at : TRUE] :
            at \in {{k \in 1..Len(ModelEnvelopes) : ModelEnvelopes[k] = env}}} :
        TRUE

\* Mutant: no energy gate.
detectVowelUngated(buffer, sampleRate) == fuseEligibleTabled(buffer.env)

detectVowel(buffer, sampleRate) ==
    IF computeRMS_dsp(buffer) < ENERGY_THRESHOLD THEN NULL
    ELSE fuseEligibleTabled(buffer.env)

-----------------------------------------------------------------------------
(* lpc.ts: the numbers of levinsonDurbin *)

\* A number is a decimal floating-point value m * 10^e with DIGITS significant
\* digits (results are truncated to them), or an infinity, or NaN.  Signed
\* zeros are not kept apart.
DIGITS == 4

\* The largest double is 1.797e308 and the smallest 4.9e-324; the largest float
\* is 3.402e38 and the smallest 1.4e-45.
DOUBLE_MAX_EXP == 308
DOUBLE_MAX_DIGITS == 1797
DOUBLE_MIN_EXP == -323
FLOAT_MAX_EXP == 38
FLOAT_MAX_DIGITS == 3402
FLOAT_MIN_EXP == -45

RECURSIVE Pow10(_)
Pow10(n) == IF n = 0 THEN 1 ELSE 10 * Pow10(n - 1)

NaN == [c |-> "nan", m |-> 0, e |-> 0]
Inf(sign) == [c |-> "inf", m |-> sign, e |-> 0]
Zero == [c |-> "fin", m |-> 0, e |-> 0]
Sign(m) == IF m < 0 THEN -1 ELSE 1

RECURSIVE Normal(_, _, _, _, _, _)
\* The finite number sign * mag * 10^e brought to DIGITS digits; beyond the
\* largest exponent it is an infinity, below the smallest it is zero.
Normal(sign, mag, e, maxExp, maxDigits, minExp) ==
    IF mag = 0 THEN Zero
    ELSE IF mag >= Pow10(DIGITS)
         THEN Normal(sign, mag \div 10, e + 1, maxExp, maxDigits, minExp)
    ELSE IF mag < Pow10(DIGITS - 1)
         THEN Normal(sign, mag * 10, e - 1, maxExp, maxDigits, minExp)
    ELSE IF e + DIGITS - 1 > maxExp THEN Inf(sign)
    ELSE IF e + DIGITS - 1 = maxExp /\ mag > maxDigits THEN Inf(sign)
    ELSE IF e + DIGITS - 1 < minExp THEN Zero
    ELSE [c |-> "fin", m |-> sign * mag, e |-> e]

Double(sign, mag, e) ==
    Normal(sign, mag, e, DOUBLE_MAX_EXP, DOUBLE_MAX_DIGITS, DOUBLE_MIN_EXP)

Num(n) == Double(Sign(n), Abs(n), 0)

\* The value a Float32Array element holds after x is stored in it.
Float32(x) ==
    IF x.c # "fin" THEN x
    ELSE Normal(Sign(x.m), Abs(x.m), x.e, FLOAT_MAX_EXP, FLOAT_MAX_DIGITS,
                FLOAT_MIN_EXP)

Negate(x) == [x EXCEPT !.m = -x.m]

\* x * y
Times(x, y) ==
    IF x.c = "nan" \/ y.c = "nan" THEN NaN
    ELSE IF x.c = "inf" \/ y.c = "inf"
         THEN IF x.m = 0 \/ y.m = 0 THEN NaN
              ELSE Inf(Sign(x.m) * Sign(y.m))
    ELSE Double(Sign(x.m) * Sign(y.m), Abs(x.m) * Abs(y.m), x.e + y.e)

\* x + y
Plus(x, y) ==
    IF x.c = "nan" \/ y.c = "nan" THEN NaN
    ELSE IF x.c = "inf"
         THEN IF y.c = "inf" /\ y.m # x.m THEN NaN ELSE x
    ELSE IF y.c = "inf" THEN y
    ELSE IF x.m = 0 THEN y
    ELSE IF y.m = 0 THEN x
    ELSE IF x.e - y.e > DIGITS THEN x
    ELSE IF y.e - x.e > DIGITS THEN y
    ELSE IF x.e >= y.e
         THEN LET sum == x.m * Pow10(x.e - y.e) + y.m
              IN  Double(Sign(sum), Abs(sum), y.e)
    ELSE LET sum == y.m * Pow10(y.e - x.e) + x.m
         IN  Double(Sign(sum), Abs(sum), x.e)

Minus(x, y) == Plus(x, Negate(y))

\* x / y
Over(x, y) ==
    IF x.c = "nan" \/ y.c = "nan" THEN NaN
    ELSE IF x.c = "inf"
         THEN IF y.c = "inf" THEN NaN ELSE Inf(Sign(x.m) * Sign(y.m))
    ELSE IF y.c = "inf" THEN Zero
    ELSE IF y.m = 0
         THEN IF x.m = 0 THEN NaN ELSE Inf(Sign(x.m))
    ELSE Double(Sign(x.m) * Sign(y.m),
                (Abs(x.m) * Pow10(DIGITS)) \div Abs(y.m),
                x.e - y.e - DIGITS)

\* Math.sqrt(x)
SquareRoot(x) ==
    IF x.c = "nan" \/ x.m < 0 THEN NaN
    ELSE IF x.c = "inf" THEN x
    ELSE IF x.e % 2 = 0
         THEN Double(1, ISqrt(x.m * Pow10(DIGITS)), (x.e - DIGITS) \div 2)
    ELSE Double(1, ISqrt(x.m * Pow10(DIGITS + 1)), (x.e - DIGITS - 1) \div 2)

\* x === 0
IsZero(x) == x.c = "fin" /\ x.m = 0

\* x <= 0
AtMostZero(x) == x.c # "nan" /\ x.m <= 0

\* x > 0
StrictlyPositive(x) == x.c # "nan" /\ x.m > 0

-----------------------------------------------------------------------------
(* lpc.ts *)

LPC_ORDER == 12

\* The floor the error term is reset to: 1e-10.
E_FLOOR == Double(1, 1, -10)

RECURSIVE lambdaOf(_, _, _, _)
\* lambda after the inner loop has run for j < upTo: R and a are sequences, so
\* R[k] of the code is R[k + 1] here.
lambdaOf(R, a, i, upTo) ==
    IF upTo = 0 THEN R[i + 2]
    ELSE Minus(lambdaOf(R, a, i, upTo - 1), Times(a[upTo], R[i - upTo + 2]))

\* One pass of the loop body of levinsonDurbin, for index i, from the
\* coefficients a and the error term E.
levinsonDurbinPass(R, a, E, i) ==
    LET lambda == lambdaOf(R, a, i, i)
        ki == Over(lambda, E)
        prev == a
        updated == Times(E, Minus(Num(1), Times(ki, ki)))
    IN  [a |-> [j \in 1..Len(a) |->
                   IF j = i + 1 THEN Float32(ki)
                   ELSE IF j <= i
                        THEN Float32(Minus(prev[j], Times(ki, prev[i + 1 - j])))
                   ELSE a[j]],
         E |-> IF AtMostZero(updated) THEN E_FLOOR ELSE updated]

-----------------------------------------------------------------------------
(* vowelTargets.ts: the log-ratio classifier *)

LN2 == 69315
LN10 == 230259

\* atanh(z) * 100000 for z = num / den <= 1/3, by its series up to z^9.
RECURSIVE AtanhSeries(_, _, _, _)
AtanhSeries(z, zz, power, n) ==
    IF n > 9 THEN 0
    ELSE (power \div n) + AtanhSeries(z, zz, (power * zz) \div 100000, n + 2)

\* ln(mag / den) * 100000 for 1 <= mag / den < 2.
LnUnit(mag, den) ==
    LET z == ((mag - den) * 100000) \div (mag + den)
    IN  2 * AtanhSeries(z, (z * z) \div 100000, z, 1)

\* ln(mag / den) * 100000 for mag / den >= 1, halving the argument into [1, 2).
RECURSIVE LnAbove(_, _)
LnAbove(mag, den) ==
    IF mag >= 2 * den THEN LN2 + LnAbove(mag, 2 * den)
    ELSE LnUnit(mag, den)

\* Math.log(x)
Log(x) ==
    IF x.c = "nan" \/ x.m < 0 THEN NaN
    ELSE IF x.c = "inf" THEN x
    ELSE IF x.m = 0 THEN Inf(-1)
    ELSE LET ln == LnAbove(x.m, Pow10(DIGITS - 1)) + (x.e + DIGITS - 1) * LN10
         IN  Double(Sign(ln), Abs(ln), -5)

\* x < y
Less(x, y) ==
    /\ x.c # "nan"
    /\ y.c # "nan"
    /\ x # y
    /\ StrictlyPositive(Minus(y, x))

VOWEL_RATIO_TARGETS ==
    [t \in 1..Len(VOWEL_TARGETS) |->
        [vowel |-> VOWEL_TARGETS[t].vowel,
         logR1 |-> Log(Over(Num(VOWEL_TARGETS[t].f2), Num(VOWEL_TARGETS[t].f1))),
         logR2 |-> Log(Over(Num(VOWEL_TARGETS[t].f3), Num(VOWEL_TARGETS[t].f2)))]]

\* 2 * dr1 * dr1 + dr2 * dr2
ratioDist(logR1, logR2, target) ==
    LET dr1 == Minus(logR1, target.logR1)
        dr2 == Minus(logR2, target.logR2)
    IN  Plus(Times(Times(Num(2), dr1), dr1), Times(dr2, dr2))

\* The loop over VOWEL_RATIO_TARGETS from target t on.
RECURSIVE nearestRatioTarget(_, _, _, _, _)
nearestRatioTarget(logR1, logR2, t, bestVowel, bestDist) ==
    IF t > Len(VOWEL_RATIO_TARGETS) THEN bestVowel
    ELSE LET dist == ratioDist(logR1, logR2, VOWEL_RATIO_TARGETS[t])
         IN  IF Less(dist, bestDist)
             THEN nearestRatioTarget(logR1, logR2, t + 1,
                                     VOWEL_RATIO_TARGETS[t].vowel, dist)
             ELSE nearestRatioTarget(logR1, logR2, t + 1, bestVowel, bestDist)

\* Mutant: the second ratio is f3 / f1, not f3 / f2.
classifyVowelByRatiosOfF1(f1, f2, f3) ==
    nearestRatioTarget(Log(Over(f2, f1)), Log(Over(f3, f1)), 1,
                       VOWEL_RATIO_TARGETS[1].vowel, Inf(1))

classifyVowelByRatios(f1, f2, f3) ==
    nearestRatioTarget(Log(Over(f2, f1)), Log(Over(f3, f2)), 1,
                       VOWEL_RATIO_TARGETS[1].vowel, Inf(1))

-----------------------------------------------------------------------------
(* detectMfcc.ts *)

NUM_MFCC == 13
\* 0.01, in units of 0.0001.
MFCC_ENERGY_THRESHOLD == 100

\* A cepstral vector is a sequence of NUM_MFCC integers; entry i + 1 is the
\* code's coefficient i.
computeMfcc(buffer, sampleRate) ==
    IF RootMeanSquare(buffer) < MFCC_ENERGY_THRESHOLD THEN NO_MFCC
    ELSE buffer.cep

\* Mutant: the module starts with a built-in centroid.
initialMfccTemplatesBuiltIn ==
    <<[vowel |-> "a", sum |-> [i \in 1..NUM_MFCC |-> 0], n |-> 1]>>

\* let mfccTemplates = []
initialMfccTemplates == <<>>

\* A template keeps its mean vector as the coefficient sums and the number n
\* of vectors they are divided by (n = 0 makes every mean NaN).
calibrateMfccTemplates(templates) ==
    [t \in 1..Len(templates) |->
        [vowel |-> templates[t].vowel,
         sum |-> [i \in 1..NUM_MFCC |->
                     SumTo([m \in 1..Len(templates[t].mfccs) |->
                               templates[t].mfccs[m][i]],
                           Len(templates[t].mfccs))],
         n |-> Len(templates[t].mfccs)]]

\* Twice the weighted squared distance to a template, times n^2 (coefficient 0
\* is skipped; coefficients 1..4 weigh 1.0 and the others 0.5).
ScaledDistance(mfcc, template) ==
    SumTo([i \in 1..(NUM_MFCC - 1) |->
              LET d == template.n * mfcc[i + 1] - template.sum[i + 1]
              IN  (IF i <= 4 THEN 2 ELSE 1) * d * d],
          NUM_MFCC - 1)

classifyByMfccDistance(mfcc, templates) ==
    IF Len(templates) = 0 THEN NULL
    ELSE LET best[t \in 0..Len(templates)] ==
                 IF t = 0 THEN [vowel |-> NULL, infinite |-> TRUE, dist |-> 0, n |-> 1]
                 ELSE LET template == templates[t]
                          dist == ScaledDistance(mfcc, template)
                          prev == best[t - 1]
                      IN  \* dist < bestDist; a NaN distance is never smaller
                          IF template.n # 0
                             /\ (prev.infinite
                                 \/ dist * prev.n * prev.n
                                      < prev.dist * template.n * template.n)
                          THEN [vowel |-> template.vowel, infinite |-> FALSE,
                                dist |-> dist, n |-> template.n]
                          ELSE prev
         IN  best[Len(templates)].vowel

detectVowelMfcc(buffer, sampleRate, templates) ==
    LET mfcc == computeMfcc(buffer, sampleRate)
    IN  IF mfcc = NO_MFCC THEN NULL
        ELSE classifyByMfccDistance(mfcc, templates)

-----------------------------------------------------------------------------
(* detectEnsemble.ts *)

\* Mutant: a disagreement is settled for the LPC detector.
detectVowelEnsemblePreferLpc(buffer, sampleRate, templates) ==
    LET lpcResult == detectVowel(buffer, sampleRate)
        mfccResult == detectVowelMfcc(buffer, sampleRate, templates)
    IN  IF lpcResult = NULL THEN mfccResult ELSE lpcResult

\* templates is the module-level variable mfccTemplates of detectMfcc.ts, which
\* detectVowelMfcc reads.
detectVowelEnsemble(buffer, sampleRate, templates) ==
    LET lpcResult == detectVowel(buffer, sampleRate)
        mfccResult == detectVowelMfcc(buffer, sampleRate, templates)
    IN  IF lpcResult = NULL /\ mfccResult = NULL THEN NULL
        ELSE IF lpcResult = NULL THEN mfccResult
        ELSE IF mfccResult = NULL THEN lpcResult
        ELSE IF lpcResult = mfccResult THEN lpcResult
        ELSE mfccResult

-----------------------------------------------------------------------------
(* detectLpc.ts: analyzeFormants *)

analyzeFormants(buffer, sampleRate) ==
    IF computeRMS_dsp(buffer) < ENERGY_THRESHOLD
    THEN [vowel |-> NULL, formants |-> NULL]
    ELSE [vowel |-> buffer.blend, formants |-> "FormantData"]

-----------------------------------------------------------------------------
(* The signals of the model *)

Cep(c1, c5) ==
    [i \in 1..NUM_MFCC |-> IF i = 2 THEN c1 ELSE IF i = 6 THEN c5 ELSE 0]

CepA == Cep(4, 0)
CepI == Cep(-4, 2)
CepO == Cep(1, -3)

\* A buffer: its waveform, what the LPC analysis finds in it (env, and blend
\* for the blended classifier of analyzeFormants) and its cepstral vector.
Wave(len, amp, period, lpc, cep) ==
    [len |-> len, amp |-> amp, period |-> period,
     env |-> EnvelopeOf(lpc), blend |-> lpc, cep |-> cep]

\* What the spectral analysis yields on a waveform: (lpc, cep) pairs.
ModelSpectra ==
    {<<"a", CepA>>, <<"i", CepI>>, <<"a", CepI>>, <<NULL, CepO>>}

ModelBuffers ==
    {Wave(ModelWaveforms[w].len, ModelWaveforms[w].amp, ModelWaveforms[w].period,
          sp[1], sp[2]) : w \in 1..Len(ModelWaveforms), sp \in ModelSpectra}

\* Labelled calibration data handed to calibrateMfccTemplates.
ModelCalibrations ==
    {<<>>,
     <<[vowel |-> "a", mfccs |-> <<>>]>>,
     <<[vowel |-> "i", mfccs |-> <<CepI>>]>>,
     <<[vowel |-> "a", mfccs |-> <<CepA, Cep(2, 0)>>],
       [vowel |-> "i", mfccs |-> <<CepI>>]>>}

\* detectPitch on every model waveform at every model rate, computed once.
PitchTable ==
    [k \in 1..(Len(ModelWaveforms) * Len(ModelRates)) |->
        detectPitch(ModelWaveforms[((k - 1) \div Len(ModelRates)) + 1],
                    ModelRates[((k - 1) % Len(ModelRates)) + 1])]

\* detectPitch(buffer, sampleRate), read from PitchTable when it is there.
detectPitchTabled(buffer, sampleRate) ==
    CHOOSE pitch \in
        {IF at = {} THEN detectPitch(buffer, sampleRate)
         ELSE PitchTable[CHOOSE k \in at : TRUE] :
            at \in {{k \in 1..(Len(ModelWaveforms) * Len(ModelRates)) :
                        /\ ModelWaveforms[((k - 1) \div Len(ModelRates)) + 1]
                               = Waveform(buffer)
                        /\ ModelRates[((k - 1) % Len(ModelRates)) + 1]
                               = sampleRate}}} : TRUE

-----------------------------------------------------------------------------
(* pipe.ts and capture.ts: buildPipeline *)

\* { ...features, ...out }: a key of out overrides the same key of features.
Merge(features, out) == out @@ features

\* features.key ?? default (every default below is what an absent value is
\* already represented by, so only a missing key needs it)
Get(features, key, default) ==
    IF key \in DOMAIN features THEN features[key] ELSE default

\* 0.01, in units of 0.0001.
VOICING_THRESHOLD == 100

\* Mutant: a volume at the threshold counts.
isRawVoicingAtThreshold(volume, pitch, threshold) ==
    volume >= threshold /\ pitch # NO_PITCH

isRawVoicing(volume, pitch, threshold) == volume > threshold /\ pitch # NO_PITCH

\* Each stateful processor returns its output and its next closure state.
voicingProcessor(frame, features, state) ==
    LET raw == isRawVoicing(Get(features, "volume", 0),
                            Get(features, "pitch", NO_PITCH), VOICING_THRESHOLD)
        next == updateVoicing(raw, state)
    IN  [out |-> [isVoicing |-> next.isVoicing], state |-> next, raw |-> raw]

\* Mutant: the raw vowel enters the window whether or not the frame is voiced.
smoothingProcessorPushesRaw(frame, features, state) ==
    LET rawVowel == Get(features, "vowel", NULL)
        result == smoothVowel(rawVowel, state)
    IN  [out |-> [vowel |-> IF Get(features, "isVoicing", FALSE)
                            THEN result.vowel ELSE NULL],
         state |-> result.state, rawVowel |-> rawVowel, smoothed |-> result.vowel]

\* Mutant: the smoothed vowel is returned whether or not the frame is voiced.
smoothingProcessorUngated(frame, features, state) ==
    LET rawVowel == IF Get(features, "isVoicing", FALSE)
                    THEN Get(features, "vowel", NULL) ELSE NULL
        result == smoothVowel(rawVowel, state)
    IN  [out |-> [vowel |-> result.vowel],
         state |-> result.state, rawVowel |-> rawVowel, smoothed |-> result.vowel]

smoothingProcessor(frame, features, state) ==
    LET rawVowel == IF Get(features, "isVoicing", FALSE)
                    THEN Get(features, "vowel", NULL) ELSE NULL
        result == smoothVowel(rawVowel, state)
    IN  [out |-> [vowel |-> IF Get(features, "isVoicing", FALSE)
                            THEN result.vowel ELSE NULL],
         state |-> result.state, rawVowel |-> rawVowel, smoothed |-> result.vowel]

\* Mutant: the duration follows the raw evidence.
durationProcessorOnRaw(frame, features, state) ==
    LET isVoicing == isRawVoicing(Get(features, "volume", 0),
                                  Get(features, "pitch", NO_PITCH), VOICING_THRESHOLD)
        next == trackDuration(isVoicing, frame.dt, state)
    IN  [out |-> [duration |-> next.currentDuration], state |-> next,
         isVoicing |-> isVoicing]

durationProcessor(frame, features, state) ==
    LET isVoicing == Get(features, "isVoicing", FALSE)
        next == trackDuration(isVoicing, frame.dt, state)
    IN  [out |-> [duration |-> next.currentDuration], state |-> next,
         isVoicing |-> isVoicing]

\* One processor of the pipeline applied to the frame and to the features
\* merged so far; acc carries those features, the closure states of the
\* stateful processors and what they last read and returned.
Process(processor, frame, acc, templates) ==
    CASE processor = "volume" ->
           [acc EXCEPT !.features =
               Merge(@, [volume |-> computeRMS(frame.buffer)])]
      [] processor = "pitch" ->
           [acc EXCEPT !.features =
               Merge(@, [pitch |-> detectPitchTabled(frame.buffer, frame.sampleRate)])]
      [] processor = "vowel" ->
           [acc EXCEPT !.features =
               Merge(@, [vowel |-> detectVowelEnsemble(frame.buffer, frame.sampleRate,
                                                       templates),
                         formants |-> analyzeFormants(frame.buffer,
                                                      frame.sampleRate).formants])]
      [] processor = "voicing" ->
           CHOOSE next \in
               {[acc EXCEPT !.features = Merge(@, v.out),
                            !.states.voicing = v.state,
                            !.raw = v.raw] :
                   v \in {voicingProcessor(frame, acc.features, acc.states.voicing)}} :
               TRUE
      [] processor = "smoothing" ->
           CHOOSE next \in
               {[acc EXCEPT !.features = Merge(@, s.out),
                            !.states.smoothing = s.state,
                            !.rawVowel = s.rawVowel,
                            !.smoothed = s.smoothed] :
                   s \in {smoothingProcessor(frame, acc.features,
                                             acc.states.smoothing)}} :
               TRUE
      [] processor = "duration" ->
           CHOOSE next \in
               {[acc EXCEPT !.features = Merge(@, d.out),
                            !.states.duration = d.state] :
                   d \in {durationProcessor(frame, acc.features,
                                            acc.states.duration)}} :
               TRUE

\* pipe(...processors): the processors from position k on, left to right, each
\* applied to the merged outputs of the earlier ones.
RECURSIVE pipe(_, _, _, _, _)
pipe(processors, k, frame, acc, templates) ==
    IF k > Len(processors) THEN acc
    ELSE CHOOSE out \in
             {pipe(processors, k + 1, frame, next, templates) :
                 next \in {Process(processors[k], frame, a, templates) :
                              a \in {acc}}} :
             TRUE

\* Mutant: the pitch stage is missing, so features.pitch stays undefined.
analyzeNoPitch(frame, states, templates) ==
    pipe(<<"volume", "vowel", "voicing", "smoothing", "duration">>, 1, frame,
         [features |-> <<>>, states |-> states,
          raw |-> FALSE, rawVowel |-> NULL, smoothed |-> NULL],
         templates)

\* Mutant: the voicing processor comes after the smoothing and duration
\* processors.
analyzeVoicingLast(frame, states, templates) ==
    pipe(<<"volume", "pitch", "vowel", "smoothing", "duration", "voicing">>, 1, frame,
         [features |-> <<>>, states |-> states,
          raw |-> FALSE, rawVowel |-> NULL, smoothed |-> NULL],
         templates)

\* One call of the function buildPipeline() returns, as analyze(frame, {}).
\* states are the closure states of the three stateful processors.
analyze(frame, states, templates) ==
    pipe(<<"volume", "pitch", "vowel", "voicing", "smoothing", "duration">>, 1, frame,
         [features |-> <<>>, states |-> states,
          raw |-> FALSE, rawVowel |-> NULL, smoothed |-> NULL],
         templates)

\* The closure states right after buildPipeline().
buildPipeline ==
    [voicing |-> initialVoicingState,
     smoothing |-> initialVowelSmoothingState,
     duration |-> initialDurationState]

-----------------------------------------------------------------------------
(* router.ts: createRouter *)

\* A game is its position in the games array; no game is position 0.
NO_GAME == 0

\* The games arrays of the model: the menu and two games, and an array with no
\* menu in which two games share an id.
ModelGameLists ==
    {<<"menu", "rocket", "piano">>, <<"rocket", "piano", "rocket">>}

\* The ids navigate is called with and the fragments the hash is set to: the
\* empty fragment, the ids of the games and an id of no game.
NavIds == {"", "menu", "rocket", "piano", "nope"}

\* games.find((g) => g.id === gameId): the first game with the id.
findGame(games, gameId) ==
    IF \E k \in 1..Len(games) : games[k] = gameId
    THEN CHOOSE k \in 1..Len(games) :
             /\ games[k] = gameId
             /\ \A j \in 1..(k - 1) : games[j] # gameId
    ELSE NO_GAME

\* window.location.hash.replace(/^#/, '') || 'menu'
getGameIdFromHash(hash) == IF hash = "" THEN "menu" ELSE hash

\* findGame(gameId) ?? findGame('menu') ?? null
gameFor(games, gameId) ==
    IF findGame(games, gameId) # NO_GAME THEN findGame(games, gameId)
    ELSE findGame(games, "menu")

\* Mutant: the current game is not unmounted.
navigateNoUnmount(gameId, router) ==
    LET game == gameFor(router.games, gameId)
        hash == IF game # NO_GAME THEN router.games[game] ELSE gameId
    IN  [games |-> router.games,
         currentGame |-> game,
         container |-> IF game # NO_GAME THEN {game} ELSE {},
         hash |-> hash,
         hashChanges |-> router.hashChanges + (IF hash # router.hash THEN 1 ELSE 0),
         calls |-> router.calls
                     \o (IF game # NO_GAME
                         THEN <<[op |-> "mount", game |-> game]>> ELSE <<>>)]

\* navigate(gameId): router holds the games array, currentGame, the games whose
\* elements are in the container, the fragment of window.location, the
\* hashchange events not yet dispatched and the mount and unmount calls made
\* so far. Writing a different fragment queues a hashchange event.
navigate(gameId, router) ==
    LET game == gameFor(router.games, gameId)
        hash == IF game # NO_GAME THEN router.games[game] ELSE gameId
    IN  [games |-> router.games,
         currentGame |-> game,
         container |-> IF game # NO_GAME THEN {game} ELSE {},
         hash |-> hash,
         hashChanges |-> router.hashChanges + (IF hash # router.hash THEN 1 ELSE 0),
         calls |-> router.calls
                     \o (IF router.currentGame # NO_GAME
                         THEN <<[op |-> "unmount", game |-> router.currentGame]>>
                         ELSE <<>>)
                     \o (IF game # NO_GAME
                         THEN <<[op |-> "mount", game |-> game]>> ELSE <<>>)]

\* createRouter(container, games) on a page whose fragment is hash: the
\* listener is added and navigate(getGameIdFromHash()) is called.
createRouter(games, hash) ==
    navigate(getGameIdFromHash(hash),
             [games |-> games, currentGame |-> NO_GAME, container |-> {},
              hash |-> hash, hashChanges |-> 0, calls |-> <<>>])

-----------------------------------------------------------------------------
(* State *)

VARIABLES
    voicingState,     \* createVoicingProcessor: let state
    smoothingState,   \* createSmoothingProcessor: let state
    durationState,    \* createDurationProcessor: let state
    mfccTemplates,    \* detectMfcc.ts: let mfccTemplates
    features,         \* the feature record of the last analyzed frame, or <<>>
    smoothed,         \* the vowel returned by the last smoothVowel call
    detected,         \* the results of the last stateless detection, or <<>>
    recursion,        \* levinsonDurbin: R, a, E and i of the call in progress, or <<>>
    rawHist,          \* history: the raw evidence of every updateVoicing call
    durHist,          \* history: (isVoicing, dt) of every trackDuration call
    detHist,          \* history: the raw detection of every smoothVowel call
    frameHist,        \* history: the frames analyzed since buildPipeline()
    calibrated,       \* history: calibrateMfccTemplates was given a template
    audioContext,     \* createAudioPipeline: let audioContext
    analyserNode,     \* createAudioPipeline: let analyserNode
    mediaStream,      \* createAudioPipeline: let mediaStream
    animationFrameId, \* createAudioPipeline: let animationFrameId
    lastTimestamp,    \* createAudioPipeline: let lastTimestamp
    subscribers,      \* createAudioPipeline: const subscribers, in insertion order
    pendingStarts,    \* start() calls awaiting getUserMedia
    scheduled,        \* requestAnimationFrame ids waiting for the next frame
    due,              \* ids whose callbacks the current animation frame still runs
    nextFrameId,      \* the id the next requestAnimationFrame returns
    now,              \* the timestamp of the current animation frame
    stopped,          \* history: stop() has returned and start() was not called since
    deliveredAfterStop, \* history: a subscriber was invoked while stopped
    restartPhase,     \* history: 1 frames analyzed, 2 then stopped, 3 then restarted
    games,            \* createRouter: games, the ids in array order
    currentGame,      \* createRouter: let currentGame
    container,        \* createRouter: container, the games whose elements it holds
    locationHash,     \* window.location.hash without its '#'
    hashChanges,      \* hashchange events queued and not yet dispatched
    calls             \* history: the mount and unmount calls the router made

filterVars == <<voicingState, smoothingState, durationState>>
histVars == <<rawHist, durHist, detHist>>
detectVars == <<mfccTemplates, detected, calibrated, recursion>>
captureVars == <<audioContext, analyserNode, mediaStream, animationFrameId,
                 lastTimestamp, subscribers, pendingStarts, scheduled, due,
                 nextFrameId, now, stopped, deliveredAfterStop, restartPhase>>
routerVars == <<games, currentGame, container, locationHash, hashChanges, calls>>

vars == <<voicingState, smoothingState, durationState, mfccTemplates, features,
          smoothed, detected, recursion, rawHist, durHist, detHist, frameHist,
          calibrated,
          audioContext, analyserNode, mediaStream, animationFrameId,
          lastTimestamp, subscribers, pendingStarts, scheduled, due,
          nextFrameId, now, stopped, deliveredAfterStop, restartPhase,
          games, currentGame, container, locationHash, hashChanges, calls>>

\* The router variables hold the router record.
RouterIs(router) ==
    /\ games = router.games
    /\ currentGame = router.currentGame
    /\ container = router.container
    /\ locationHash = router.hash
    /\ hashChanges = router.hashChanges
    /\ calls = router.calls

\* The pipeline before its first frame and the capture before start().
InitPipeline ==
    /\ voicingState = buildPipeline.voicing
    /\ smoothingState = buildPipeline.smoothing
    /\ durationState = buildPipeline.duration
    /\ mfccTemplates = initialMfccTemplates
    /\ features = <<>>
    /\ smoothed = NULL
    /\ rawHist = <<>>
    /\ durHist = <<>>
    /\ detHist = <<>>
    /\ frameHist = <<>>
    /\ calibrated = FALSE
    /\ recursion = <<>>
    /\ audioContext = NULL
    /\ analyserNode = NULL
    /\ mediaStream = NULL
    /\ animationFrameId = NO_ID
    /\ lastTimestamp = 0
    /\ subscribers = <<>>
    /\ pendingStarts = 0
    /\ scheduled = {}
    /\ due = {}
    /\ nextFrameId = 1
    /\ now = 0
    /\ stopped = FALSE
    /\ deliveredAfterStop = FALSE
    /\ restartPhase = 0

\* main.ts creates the router over the menu and the games on a page with an
\* empty fragment.
InitExceptDetected ==
    /\ InitPipeline
    /\ RouterIs(createRouter(<<"menu", "rocket", "piano">>, ""))

Init == InitExceptDetected /\ detected = <<>>

-----------------------------------------------------------------------------
(* The three filters driven alone, each from its declared initial state *)

VoicingStep ==
    \E raw \in BOOLEAN :
        /\ Len(rawHist) < MaxFrames
        /\ voicingState' = updateVoicing(raw, voicingState)
        /\ rawHist' = Append(rawHist, raw)
        /\ UNCHANGED <<routerVars, smoothingState, durationState, features, smoothed,
                       durHist, detHist, frameHist, detectVars, captureVars>>

DurationStep ==
    \E isVoicing \in BOOLEAN, dt \in DtValues :
        /\ Len(durHist) < MaxDurFrames
        /\ durationState' = trackDuration(isVoicing, dt, durationState)
        /\ durHist' = Append(durHist, [isVoicing |-> isVoicing, dt |-> dt])
        /\ UNCHANGED <<routerVars, voicingState, smoothingState, features, smoothed,
                       rawHist, detHist, frameHist, detectVars, captureVars>>

SmoothStep ==
    \E rawVowel \in ModelVowels \cup {NULL} :
        /\ Len(detHist) < MaxSmoothCalls
        /\ LET r == smoothVowel(rawVowel, smoothingState)
           IN  /\ smoothingState' = r.state
               /\ smoothed' = r.vowel
        /\ detHist' = Append(detHist, rawVowel)
        /\ UNCHANGED <<routerVars, voicingState, durationState, features,
                       rawHist, durHist, frameHist, detectVars, captureVars>>

SpecVoicing == Init /\ [][VoicingStep]_vars
SpecDuration == Init /\ [][DurationStep]_vars
SpecSmooth == Init /\ [][SmoothStep]_vars

-----------------------------------------------------------------------------
(* The stateless detectors applied to a buffer, and the calibration *)

\* What each stateless detector returns on the buffer.
DetectionOf(buffer, sampleRate, templates) ==
    [buffer |-> buffer,
     sampleRate |-> sampleRate,
     volume |-> computeRMS(buffer),
     pitch |-> detectPitchTabled(buffer, sampleRate),
     lpc |-> detectVowel(buffer, sampleRate),
     cepstrum |-> computeMfcc(buffer, sampleRate),
     mfcc |-> detectVowelMfcc(buffer, sampleRate, templates),
     vowel |-> detectVowelEnsemble(buffer, sampleRate, templates),
     formantVowel |-> analyzeFormants(buffer, sampleRate).vowel,
     formants |-> analyzeFormants(buffer, sampleRate).formants]

Detect ==
    \E buffer \in ModelBuffers, r \in 1..Len(ModelRates) :
        /\ detected' = DetectionOf(buffer, ModelRates[r], mfccTemplates)
        /\ UNCHANGED <<routerVars, filterVars, histVars, features, smoothed, frameHist,
                       mfccTemplates, calibrated, recursion, captureVars>>

Calibrate ==
    \E templates \in ModelCalibrations :
        /\ mfccTemplates' = calibrateMfccTemplates(templates)
        /\ calibrated' = (calibrated \/ Len(templates) >= 1)
        /\ UNCHANGED <<routerVars, filterVars, histVars, features, smoothed, frameHist, detected,
                       recursion, captureVars>>

SpecDetect == Init /\ [][Detect \/ Calibrate]_vars

-----------------------------------------------------------------------------
(* detectVowel applied to one frame, over the envelopes of FusionEnvelopes *)

\* Peaks on the first formants of /i/, /a/ and between /u/ and /o/, and on the
\* second formants of /a/ and /i/.
FusionPeakFreqs == {270, 470, 700, 1300, 2300}

\* Band-energy ratios in thousandths (0 where not listed): none; both floors
\* exceeded for /a/; one floor exceeded and the other only met, for /i/ and
\* for /u/; both floors exceeded by one thousandth for /o/.
RatioWith(some) ==
    [hz \in TargetFormants |-> IF hz \in DOMAIN some THEN some[hz] ELSE 0]

FusionRatios ==
    {RatioWith(<<>>),
     RatioWith((700 :> 120) @@ (1300 :> 60)),
     RatioWith((270 :> 200) @@ (2300 :> 40) @@ (310 :> 80) @@ (700 :> 41)),
     RatioWith((380 :> 81) @@ (700 :> 41))}

\* Scores of a ranking: all equal, rising and falling along VOWEL_TARGETS, one
\* mixed order, and two orders led by the close front vowels: /e/ before /i/,
\* and /y/ before /e/ before /i/.
FusionScores ==
    {[v \in Vowel |-> 0],
     [v \in Vowel |-> TargetIndex(v)],
     [v \in Vowel |-> 10 - TargetIndex(v)],
     ("a" :> 3) @@ ("e" :> 5) @@ ("E" :> 1) @@ ("i" :> 7) @@ ("o" :> 2)
         @@ ("u" :> 6) @@ ("y" :> 4),
     ("a" :> 4) @@ ("e" :> 7) @@ ("E" :> 2) @@ ("i" :> 6) @@ ("o" :> 3)
         @@ ("u" :> 5) @@ ("y" :> 1),
     ("a" :> 1) @@ ("e" :> 6) @@ ("E" :> 2) @@ ("i" :> 5) @@ ("o" :> 3)
         @@ ("u" :> 4) @@ ("y" :> 7)}

FusionEnvelopes ==
    {[peaks |-> peaks, ratio |-> ratio, band |-> band, template |-> template] :
        peaks \in SUBSET FusionPeakFreqs, ratio \in FusionRatios,
        band \in FusionScores, template \in FusionScores}

\* A loud and a quiet 64-sample frame for every envelope.
FusionBuffers ==
    {[len |-> 64, amp |-> amp, period |-> 10, env |-> env, blend |-> NULL,
      cep |-> CepO] : amp \in {5, 20}, env \in FusionEnvelopes}

\* A frame has been captured and not yet analyzed.
InitFusion ==
    /\ InitExceptDetected
    /\ \E buffer \in FusionBuffers :
           detected = [buffer |-> buffer, sampleRate |-> ModelRates[3]]

DetectGiven ==
    /\ DOMAIN detected = {"buffer", "sampleRate"}
    /\ detected' = DetectionOf(detected.buffer, detected.sampleRate, mfccTemplates)
    /\ UNCHANGED <<routerVars, filterVars, histVars, features, smoothed, frameHist,
                   mfccTemplates, calibrated, recursion, captureVars>>

SpecFusion == InitFusion /\ [][DetectGiven]_vars

-----------------------------------------------------------------------------
(* levinsonDurbin run pass by pass, over the vectors of ModelAutocorrelations *)

\* R[0] is 0, 1 or 2, R[1] from -1 to 2, R[2] is 0 or 1, and the other entries
\* are 0.  <<2, 1, 0, ...>> is the autocorrelation of the signal 1, 1.
ModelAutocorrelations ==
    { [k \in 1..(LPC_ORDER + 1) |->
          Num(IF k = 1 THEN r0 ELSE IF k = 2 THEN r1 ELSE IF k = 3 THEN r2
              ELSE 0)] :
      r0 \in 0..2, r1 \in -1..2, r2 \in 0..1 }

\* levinsonDurbin(R, LPC_ORDER) up to the loop: the early return on R[0] === 0,
\* or a and E before the first pass.
levinsonDurbinCall ==
    /\ recursion = <<>>
    /\ \E R \in ModelAutocorrelations :
           recursion' = [R |-> R,
                         a |-> [j \in 1..LPC_ORDER |-> Zero],
                         E |-> R[1],
                         i |-> 0,
                         returned |-> IsZero(R[1]),
                         gain |-> Num(1)]
    /\ UNCHANGED <<routerVars, filterVars, histVars, features, smoothed, frameHist,
                   mfccTemplates, detected, calibrated, captureVars>>

\* One pass of the loop; recursion.E is the divisor of this pass.
levinsonDurbinLoop ==
    /\ recursion # <<>>
    /\ ~recursion.returned
    /\ recursion.i < LPC_ORDER
    /\ \E pass \in {levinsonDurbinPass(recursion.R, recursion.a, recursion.E,
                                       recursion.i)} :
           recursion' = [recursion EXCEPT !.a = pass.a, !.E = pass.E,
                                          !.i = recursion.i + 1]
    /\ UNCHANGED <<routerVars, filterVars, histVars, features, smoothed, frameHist,
                   mfccTemplates, detected, calibrated, captureVars>>

\* return { coeffs: a, gain: Math.sqrt(E) }
levinsonDurbinReturn ==
    /\ recursion # <<>>
    /\ ~recursion.returned
    /\ recursion.i = LPC_ORDER
    /\ recursion' = [recursion EXCEPT !.returned = TRUE,
                                      !.gain = SquareRoot(recursion.E)]
    /\ UNCHANGED <<routerVars, filterVars, histVars, features, smoothed, frameHist,
                   mfccTemplates, detected, calibrated, captureVars>>

SpecLevinson ==
    Init /\ [][levinsonDurbinCall \/ levinsonDurbinLoop \/ levinsonDurbinReturn]_vars

-----------------------------------------------------------------------------
(* classifyVowelByRatios on a formant triple and on the triple scaled by k *)

\* The target triples and triples around them.
RatioTriples ==
    { <<VOWEL_TARGETS[t].f1, VOWEL_TARGETS[t].f2, VOWEL_TARGETS[t].f3>> :
        t \in 1..Len(VOWEL_TARGETS) }
    \cup { <<450, 850, 2550>>, <<450, 650, 2550>>, <<800, 1400, 2600>>,
           <<300, 2500, 3300>>, <<350, 2000, 2600>>, <<500, 1900, 2700>>,
           <<250, 1700, 2000>> }

\* The scaling factors: 1, the three factors of the test, 2, 1/2, one that
\* keeps the scaled formants just below the largest double, and 1e306, which
\* takes them all beyond it.
ScalingFactors ==
    { Double(1, 1, 0), Double(1, 12, -1), Double(1, 13, -1), Double(1, 15, -1),
      Double(1, 2, 0), Double(1, 5, -1), Double(1, 1, 304), Double(1, 1, 306) }

Scaled(triple, k) == [j \in 1..3 |-> Times(k, Num(triple[j]))]

InitRatios ==
    /\ InitExceptDetected
    /\ detected \in [triple : RatioTriples, k : ScalingFactors]

ClassifyScaled ==
    /\ DOMAIN detected = {"triple", "k"}
    /\ \E scaled \in {Scaled(detected.triple, detected.k)} :
           detected' = [triple |-> detected.triple,
                        k |-> detected.k,
                        scaled |-> scaled,
                        plain |-> classifyVowelByRatios(Num(detected.triple[1]),
                                                        Num(detected.triple[2]),
                                                        Num(detected.triple[3])),
                        vowel |-> classifyVowelByRatios(scaled[1], scaled[2],
                                                        scaled[3])]
    /\ UNCHANGED <<routerVars, filterVars, histVars, features, smoothed, frameHist,
                   mfccTemplates, calibrated, recursion, captureVars>>

SpecRatios == InitRatios /\ [][ClassifyScaled]_vars

-----------------------------------------------------------------------------
(* Envelopes handed to scoreByBandEnergy *)

\* Envelopes of 81 bins at 8000 Hz, bins 50 Hz apart: a floor of 0 or 1, and
\* energy in any of the bins at 250, 400, 600, 700, 1800 and 2300 Hz.
BandBins == 81
BandSampleRate == 8000
BandPeakBins == {5, 8, 12, 14, 36, 46}

BandEnvelopes ==
    {[i \in 1..BandBins |-> IF (i - 1) \in peaks THEN floor + 4 ELSE floor] :
        peaks \in SUBSET BandPeakBins, floor \in {0, 1}}

InitBands ==
    /\ InitExceptDetected
    /\ detected \in [envelope : BandEnvelopes, sampleRate : {BandSampleRate}]

ScoreBands ==
    /\ DOMAIN detected = {"envelope", "sampleRate"}
    /\ detected' = [envelope |-> detected.envelope,
                    sampleRate |-> detected.sampleRate,
                    bandScores |-> scoreByBandEnergy(detected.envelope,
                                                     detected.sampleRate)]
    /\ UNCHANGED <<routerVars, filterVars, histVars, features, smoothed, frameHist,
                   mfccTemplates, calibrated, recursion, captureVars>>

SpecBands == InitBands /\ [][ScoreBands]_vars

-----------------------------------------------------------------------------
(* Frames fed straight to a fresh pipeline *)

\* The frames of the model: a buffer, a sample rate and the time since the
\* previous frame.
AnalyzeFrame(buffer, sampleRate, dt) ==
    /\ \E r \in {analyze([buffer |-> buffer, sampleRate |-> sampleRate, dt |-> dt],
                         [voicing |-> voicingState, smoothing |-> smoothingState,
                          duration |-> durationState],
                         mfccTemplates)} :
           /\ voicingState' = r.states.voicing
           /\ smoothingState' = r.states.smoothing
           /\ durationState' = r.states.duration
           /\ features' = r.features
           /\ smoothed' = r.smoothed
           /\ rawHist' = Append(rawHist, r.raw)
           /\ detHist' = Append(detHist, r.rawVowel)
           /\ durHist' = Append(durHist, [isVoicing |-> r.features.isVoicing,
                                          dt |-> dt])
    /\ frameHist' = Append(frameHist,
                           [buffer |-> buffer, sampleRate |-> sampleRate, dt |-> dt])

\* The signals the pipeline is fed: silence, a steady voiced /i/ in a
\* 1024-sample and in a 2048-sample frame, and a loud signal with no pitch in
\* the band.
PipelineBuffers ==
    {Wave(FFT_SIZE, 0, 0, NULL, CepO),
     Wave(FRAME_SIZE, 20, 147, "i", CepI),
     Wave(FFT_SIZE, 20, 147, "i", CepI),
     Wave(FFT_SIZE, 20, 2000, "a", CepA)}

Feed ==
    \E buffer \in PipelineBuffers, dt \in FrameDts :
        /\ Len(frameHist) < MaxPipelineFrames
        /\ AnalyzeFrame(buffer, ModelRates[3], dt)
        /\ UNCHANGED <<routerVars, detectVars, captureVars>>

SpecAnalyze == Init /\ [][Feed]_vars

-----------------------------------------------------------------------------
(* capture.ts: createAudioPipeline *)

\* The closure variables stop() and analysisLoop write, with the browser's
\* table of requested animation-frame callbacks.
Capture ==
    [audioContext |-> audioContext, analyserNode |-> analyserNode,
     mediaStream |-> mediaStream, animationFrameId |-> animationFrameId,
     lastTimestamp |-> lastTimestamp, scheduled |-> scheduled, due |-> due]

SetCapture(c) ==
    /\ audioContext' = c.audioContext
    /\ analyserNode' = c.analyserNode
    /\ mediaStream' = c.mediaStream
    /\ animationFrameId' = c.animationFrameId
    /\ lastTimestamp' = c.lastTimestamp
    /\ scheduled' = c.scheduled
    /\ due' = c.due

\* stop(): cancels the request animationFrameId names, releases the stream
\* and the context, and clears the analyser and the timestamp.
stop(c) ==
    [c EXCEPT !.scheduled = IF c.animationFrameId # NO_ID
                            THEN @ \ {c.animationFrameId} ELSE @,
              !.due = IF c.animationFrameId # NO_ID
                      THEN @ \ {c.animationFrameId} ELSE @,
              !.animationFrameId = NO_ID,
              !.mediaStream = NULL,
              !.audioContext = NULL,
              !.analyserNode = NULL,
              !.lastTimestamp = 0]

\* notifySubscribers: every subscriber in insertion order, from position i.
\* A "stopper" calls stop() in its callback, a "listener" only reads.  n
\* carries whether stop() has returned (stopped), whether this loop called it
\* (stopCall) and whether a callback ran while stopped (late).
RECURSIVE notifySubscribers(_, _, _)
notifySubscribers(subs, i, n) ==
    IF i > Len(subs) THEN n
    ELSE LET invoked == [n EXCEPT !.late = @ \/ n.stopped]
         IN  notifySubscribers(subs, i + 1,
                 IF subs[i] = "stopper"
                 THEN [invoked EXCEPT !.stopped = TRUE, !.stopCall = TRUE]
                 ELSE invoked)

SubscriberKinds == {"listener", "stopper"}

\* What the analyser hands the loop: silence or a steady voiced /i/.
CaptureBuffers ==
    {Wave(FFT_SIZE, 0, 0, NULL, CepO), Wave(FFT_SIZE, 20, 147, "i", CepI)}

\* audioContext.sampleRate
ContextRate == ModelRates[3]

\* The interval between two animation frames, in milliseconds.
TickMs == CHOOSE dt \in FrameDts : dt > 0

\* start() up to its await: the microphone is requested.
StartCall ==
    /\ due = {}
    /\ pendingStarts < MaxPending
    /\ pendingStarts' = pendingStarts + 1
    /\ stopped' = FALSE
    /\ UNCHANGED <<routerVars, filterVars, histVars, features, smoothed, frameHist, detectVars,
                   audioContext, analyserNode, mediaStream, animationFrameId,
                   lastTimestamp, subscribers, scheduled, due, nextFrameId, now,
                   deliveredAfterStop, restartPhase>>

\* Mutant: start() keeps the pipeline it had.
StartResumeKeepPipeline ==
    /\ pendingStarts > 0
    /\ nextFrameId <= MaxRequests
    /\ pendingStarts' = pendingStarts - 1
    /\ mediaStream' = "stream"
    /\ audioContext' = "context"
    /\ analyserNode' = "analyser"
    /\ lastTimestamp' = 0
    /\ UNCHANGED <<routerVars, voicingState, smoothingState, durationState>>
    /\ rawHist' = <<>>
    /\ durHist' = <<>>
    /\ detHist' = <<>>
    /\ frameHist' = <<>>
    /\ animationFrameId' = nextFrameId
    /\ scheduled' = scheduled \cup {nextFrameId}
    /\ nextFrameId' = nextFrameId + 1
    /\ restartPhase' = IF restartPhase = 2 THEN 3 ELSE restartPhase
    /\ UNCHANGED <<routerVars, features, smoothed, detectVars, subscribers, due, now, stopped,
                   deliveredAfterStop>>

\* start() after its await: getUserMedia resolved.
StartResume ==
    /\ pendingStarts > 0
    /\ nextFrameId <= MaxRequests
    /\ pendingStarts' = pendingStarts - 1
    /\ mediaStream' = "stream"
    /\ audioContext' = "context"
    /\ analyserNode' = "analyser"
    /\ lastTimestamp' = 0
    /\ voicingState' = buildPipeline.voicing
    /\ smoothingState' = buildPipeline.smoothing
    /\ durationState' = buildPipeline.duration
    /\ rawHist' = <<>>
    /\ durHist' = <<>>
    /\ detHist' = <<>>
    /\ frameHist' = <<>>
    /\ animationFrameId' = nextFrameId
    /\ scheduled' = scheduled \cup {nextFrameId}
    /\ nextFrameId' = nextFrameId + 1
    /\ restartPhase' = IF restartPhase = 2 THEN 3 ELSE restartPhase
    /\ UNCHANGED <<routerVars, features, smoothed, detectVars, subscribers, due, now, stopped,
                   deliveredAfterStop>>

\* start() after its await: getUserMedia rejected, and start() throws.
StartReject ==
    /\ pendingStarts > 0
    /\ pendingStarts' = pendingStarts - 1
    /\ UNCHANGED <<routerVars, filterVars, histVars, features, smoothed, frameHist, detectVars,
                   audioContext, analyserNode, mediaStream, animationFrameId,
                   lastTimestamp, subscribers, scheduled, due, nextFrameId, now,
                   stopped, deliveredAfterStop, restartPhase>>

\* stop() called by the application, between animation frames.
Stop ==
    /\ due = {}
    /\ SetCapture(stop(Capture))
    /\ stopped' = TRUE
    /\ restartPhase' = IF restartPhase = 1 THEN 2 ELSE restartPhase
    /\ UNCHANGED <<routerVars, filterVars, histVars, features, smoothed, frameHist, detectVars,
                   subscribers, pendingStarts, nextFrameId, now, deliveredAfterStop>>

\* subscribe(callback): a Set keeps one entry per callback.
Subscribe ==
    \E kind \in SubscriberKinds :
        /\ due = {}
        /\ \A i \in 1..Len(subscribers) : subscribers[i] # kind
        /\ subscribers' = Append(subscribers, kind)
        /\ UNCHANGED <<routerVars, filterVars, histVars, features, smoothed, frameHist,
                       detectVars, audioContext, analyserNode, mediaStream,
                       animationFrameId, lastTimestamp, pendingStarts, scheduled,
                       due, nextFrameId, now, stopped, deliveredAfterStop,
                       restartPhase>>

\* The function subscribe returned: subscribers.delete(callback).
Unsubscribe ==
    \E i \in 1..Len(subscribers) :
        /\ due = {}
        /\ subscribers' = SubSeq(subscribers, 1, i - 1)
                              \o SubSeq(subscribers, i + 1, Len(subscribers))
        /\ UNCHANGED <<routerVars, filterVars, histVars, features, smoothed, frameHist,
                       detectVars, audioContext, analyserNode, mediaStream,
                       animationFrameId, lastTimestamp, pendingStarts, scheduled,
                       due, nextFrameId, now, stopped, deliveredAfterStop,
                       restartPhase>>

\* The browser begins an animation frame: the callbacks requested so far are
\* due, all with the same timestamp.
BeginFrame ==
    /\ due = {}
    /\ scheduled # {}
    /\ due' = scheduled
    /\ scheduled' = {}
    /\ now' = now + TickMs
    /\ UNCHANGED <<routerVars, filterVars, histVars, features, smoothed, frameHist, detectVars,
                   audioContext, analyserNode, mediaStream, animationFrameId,
                   lastTimestamp, subscribers, pendingStarts, nextFrameId,
                   stopped, deliveredAfterStop, restartPhase>>

\* analysisLoop(timestamp), for the oldest due request.
analysisLoop ==
    /\ due # {}
    /\ LET id == CHOOSE i \in due : \A j \in due : i <= j
       IN  IF analyserNode = NULL \/ audioContext = NULL
           THEN /\ due' = due \ {id}
                /\ UNCHANGED <<routerVars, filterVars, histVars, features, smoothed, frameHist,
                               audioContext, analyserNode, mediaStream,
                               animationFrameId, lastTimestamp, scheduled,
                               nextFrameId, stopped, deliveredAfterStop,
                               restartPhase>>
           ELSE /\ nextFrameId <= MaxRequests
                /\ \E buffer \in CaptureBuffers :
                       AnalyzeFrame(buffer, ContextRate,
                                    IF lastTimestamp = 0 THEN 0
                                    ELSE now - lastTimestamp)
                /\ LET n == notifySubscribers(subscribers, 1,
                                [stopped |-> stopped, stopCall |-> FALSE,
                                 late |-> FALSE])
                       ran == [Capture EXCEPT !.lastTimestamp = now,
                                              !.due = @ \ {id}]
                       c == IF n.stopCall THEN stop(ran) ELSE ran
                   IN  /\ SetCapture([c EXCEPT !.animationFrameId = nextFrameId,
                                               !.scheduled = @ \cup {nextFrameId}])
                       /\ stopped' = n.stopped
                       /\ deliveredAfterStop' = (deliveredAfterStop \/ n.late)
                       /\ restartPhase' =
                              IF restartPhase = 0 THEN (IF n.stopCall THEN 2 ELSE 1)
                              ELSE IF restartPhase = 1 /\ n.stopCall THEN 2
                              ELSE restartPhase
                /\ nextFrameId' = nextFrameId + 1
    /\ UNCHANGED <<routerVars, detectVars, subscribers, pendingStarts, now>>

Next ==
    \/ StartCall
    \/ StartResume
    \/ StartReject
    \/ Stop
    \/ Subscribe
    \/ Unsubscribe
    \/ BeginFrame
    \/ analysisLoop

Spec == Init /\ [][Next]_vars

-----------------------------------------------------------------------------
(* The router driven by navigate calls and by changes of the fragment *)

RouterState ==
    [games |-> games, currentGame |-> currentGame, container |-> container,
     hash |-> locationHash, hashChanges |-> hashChanges, calls |-> calls]

\* The router variables after the step are the router record.
RouterBecomes(router) ==
    /\ games' = router.games
    /\ currentGame' = router.currentGame
    /\ container' = router.container
    /\ locationHash' = router.hash
    /\ hashChanges' = router.hashChanges
    /\ calls' = router.calls

RouterIdle ==
    UNCHANGED <<filterVars, histVars, features, smoothed, frameHist, detectVars,
                captureVars>>

\* The router is created over one of the games arrays on a page with any of
\* the fragments.
InitRouter ==
    /\ InitPipeline
    /\ detected = <<>>
    /\ \E list \in ModelGameLists, hash \in NavIds :
           RouterIs(createRouter(list, hash))

\* router.navigate(gameId)
Navigate ==
    \E gameId \in NavIds :
        /\ Len(calls) + 2 <= MaxRouterCalls
        /\ hashChanges < MaxHashChanges
        /\ RouterBecomes(navigate(gameId, RouterState))
        /\ RouterIdle

\* The page sets window.location.hash (a game's back button, a link, the
\* history): a different fragment queues a hashchange event.
SetHash ==
    \E hash \in NavIds :
        /\ hash # locationHash
        /\ hashChanges < MaxHashChanges
        /\ locationHash' = hash
        /\ hashChanges' = hashChanges + 1
        /\ UNCHANGED <<games, currentGame, container, calls>>
        /\ RouterIdle

\* A queued hashchange event is dispatched to the router's listener.
onHashChange ==
    /\ hashChanges > 0
    /\ Len(calls) + 2 <= MaxRouterCalls
    /\ RouterBecomes(navigate(getGameIdFromHash(locationHash),
                              [RouterState EXCEPT !.hashChanges = @ - 1]))
    /\ RouterIdle

NextRouter == Navigate \/ SetHash \/ onHashChange

SpecRouter == InitRouter /\ [][NextRouter]_vars

-----------------------------------------------------------------------------
(* Onsets and held offsets fed to a fresh pipeline at the pace of the capture *)

\* A steady voiced signal, the same signal with its volume exactly at the
\* voicing threshold, and a loud signal with no pitch in the band.
HoldFrames ==
    {[buffer |-> Wave(64, 20, 10, "i", CepI), sampleRate |-> ModelRates[2]],
     [buffer |-> Wave(64, 10, 10, "i", CepI), sampleRate |-> ModelRates[2]],
     [buffer |-> Wave(FFT_SIZE, 20, 2000, "a", CepA), sampleRate |-> ModelRates[3]]}

\* dt as analysisLoop computes it when frames come every TickMs: 0 for the
\* first frame.
FeedHold ==
    \E frame \in HoldFrames :
        /\ Len(frameHist) < MaxHoldFrames
        /\ AnalyzeFrame(frame.buffer, frame.sampleRate,
                        IF frameHist = <<>> THEN 0 ELSE TickMs)
        /\ UNCHANGED <<routerVars, detectVars, captureVars>>

SpecHold == Init /\ [][FeedHold]_vars

-----------------------------------------------------------------------------
(* Helpers of the claims *)

Last(s) == s[Len(s)]

\* Length of the maximal run of entries equal to x that ends the sequence.
TrailingRun(s, x) ==
    LET run[i \in 0..Len(s)] ==
            IF i = 0 THEN 0
            ELSE IF s[i] = x THEN run[i - 1] + 1 ELSE 0
    IN  run[Len(s)]

\* The last n entries of s (all of s when it is shorter).
LastN(s, n) == IF Len(s) <= n THEN s ELSE SubSeq(s, Len(s) - n + 1, Len(s))

-----------------------------------------------------------------------------
(* Claims on the voicing hysteresis (SpecVoicing) *)

\* C1: from a state with isVoicing = false, a frame sets isVoicing to true if
\* and only if it is the 3rd consecutive raw-true frame since the last raw-false
\* frame (or since the initial state); a raw-false frame leaves isVoicing false
\* and resets the onset counter to 0.
C1_OnsetNeedsThree ==
    [][(rawHist' # rawHist /\ ~voicingState.isVoicing) =>
          /\ voicingState'.isVoicing <=> TrailingRun(rawHist', TRUE) = 3
          /\ ~Last(rawHist') =>
                 ~voicingState'.isVoicing /\ voicingState'.framesAbove = 0]_vars

\* Voicing has just started on the 3rd raw-true frame that follows two
\* raw-true frames and a raw-false one.
C1_Witness ==
    /\ rawHist = <<TRUE, TRUE, FALSE, TRUE, TRUE, TRUE>>
    /\ voicingState.isVoicing

\* C2: once isVoicing is true, it stays true through 1 to 4 consecutive
\* raw-false frames and becomes false exactly on the 5th; a raw-true frame in
\* between resets the offset counter to 0.
C2_OffsetNeedsFive ==
    [][(rawHist' # rawHist /\ voicingState.isVoicing) =>
          /\ ~voicingState'.isVoicing <=> TrailingRun(rawHist', FALSE) = 5
          /\ Last(rawHist') =>
                 voicingState'.isVoicing /\ voicingState'.framesBelow = 0]_vars

\* Voicing has just stopped on the 5th raw-false frame of a run that started
\* again after an interrupted run of 4.
C2_Witness ==
    /\ rawHist = <<TRUE, TRUE, TRUE, FALSE, FALSE, FALSE, FALSE, TRUE,
                   FALSE, FALSE, FALSE, FALSE, FALSE>>
    /\ ~voicingState.isVoicing

-----------------------------------------------------------------------------
(* Claims on the duration accumulator (SpecDuration) *)

-----------------------------------------------------------------------------
(* Claims on the smoothing window (SpecSmooth) *)

\* The recency-weighted sum of v over window w, in decimal arithmetic.
DecimalSum(w, v) ==
    SumTo([i \in 1..Len(w) |->
              IF w[i] = v THEN WEIGHTS[i + 7 - Len(w)] ELSE 0], Len(w))

\* C4: smoothVowel returns a vowel whose weighted sum over the window (the
\* last 7 detections, the new one included) is the largest, if that sum is at
\* least 1.5, and absent otherwise; [a,a,a,-,-,-,-] yields absent and
\* [a,a,a,a,-,-,-] yields a; after 4 consecutive absent detections nothing is
\* emitted.
C4_ConsensusOnly ==
    detHist # <<>> =>
        LET w == LastN(detHist, 7)
            best == CHOOSE v \in Vowel :
                        \A u \in Vowel : DecimalSum(w, u) <= DecimalSum(w, v)
        IN  /\ IF DecimalSum(w, best) >= 1500
               THEN smoothed \in Vowel /\ DecimalSum(w, smoothed) = DecimalSum(w, best)
               ELSE smoothed = NULL
            /\ w = <<"a", "a", "a", NULL, NULL, NULL, NULL>> => smoothed = NULL
            /\ w = <<"a", "a", "a", "a", NULL, NULL, NULL>> => smoothed = "a"
            /\ TrailingRun(detHist, NULL) >= 4 => smoothed = NULL

\* A steady vowel has just been dropped on the 4th consecutive absent detection.
C4_Witness ==
    /\ detHist = <<"a", "a", "a", "a", NULL, NULL, NULL, NULL>>
    /\ smoothingState.buffer = <<"a", "a", "a", NULL, NULL, NULL, NULL>>
    /\ smoothed = NULL

-----------------------------------------------------------------------------
(* Claims on the whole pipeline (SpecAnalyze) *)

\* A frame of a steady voiced /i/: periodic with its fundamental inside the
\* pitch band, louder than the voicing threshold, and classified 'i'.
SteadyVoicedI(frame) ==
    /\ frame.buffer.period > 0
    /\ MIN_FREQUENCY * frame.buffer.period <= frame.sampleRate
    /\ frame.sampleRate <= MAX_FREQUENCY * frame.buffer.period
    /\ computeRMS(frame.buffer) > VOICING_THRESHOLD
    /\ detectVowelEnsemble(frame.buffer, frame.sampleRate, mfccTemplates) = "i"

\* The pitch detector's minimum buffer length at the frame's sample rate.
LongEnoughForPitch(frame) ==
    frame.buffer.len >= 2 * (frame.sampleRate \div MIN_FREQUENCY)

\* C5 as stated: once three or more consecutive 1024-sample frames of a steady
\* voiced /i/ at 44100 Hz have been fed to a fresh pipeline, the feature record
\* has isVoicing = true and vowel = 'i'.
C5_AsStated ==
    (/\ Len(frameHist) >= 3
     /\ \A k \in 1..Len(frameHist) :
            /\ SteadyVoicedI(frameHist[k])
            /\ frameHist[k].buffer.len = 1024
            /\ frameHist[k].sampleRate = 44100)
    => (features.isVoicing /\ features.vowel = "i")

\* C5 (amended): when every frame fed to a fresh pipeline carries a steady
\* voiced /i/ and is long enough for the pitch detector (at least
\* 2 * floor(sampleRate / 80) samples: 1102 at 44100 Hz), isVoicing is true
\* exactly from the 3rd frame on, the vowel is absent on frames 1 to 3 and 'i'
\* from the 4th frame on, and the duration is the sum of dt from the 3rd frame
\* on, so it never decreases.  Frames too short for the pitch detector never
\* turn isVoicing on.
C5_SteadyVowelScenario ==
    LET n == Len(frameHist)
        dts == [k \in 1..n |-> IF k >= 3 THEN frameHist[k].dt ELSE 0]
    IN  /\ (/\ n >= 1
            /\ \A k \in 1..n : SteadyVoicedI(frameHist[k])
                                  /\ LongEnoughForPitch(frameHist[k]))
           => /\ features.isVoicing <=> n >= 3
              /\ features.vowel = (IF n >= 4 THEN "i" ELSE NULL)
              /\ features.duration = SumTo(dts, n)
        /\ (/\ n >= 1
            /\ \A k \in 1..n : ~LongEnoughForPitch(frameHist[k]))
           => (~features.isVoicing /\ features.vowel = NULL
               /\ features.duration = 0)

\* Five 2048-sample frames of the steady /i/, 16 ms apart: voiced, 'i', and
\* 48 ms long.
C5_Witness ==
    /\ Len(frameHist) = 5
    /\ \A k \in 1..5 : /\ frameHist[k].buffer = Wave(FFT_SIZE, 20, 147, "i", CepI)
                       /\ frameHist[k].dt = 16
    /\ features.isVoicing
    /\ features.vowel = "i"
    /\ features.pitch # NO_PITCH
    /\ features.duration = 48

-----------------------------------------------------------------------------
(* Claims on the stateless detectors (SpecDetect) *)

\* C6 as stated: for an all-zero buffer of any length at any sample rate,
\* computeRMS returns 0, detectPitch returns absent and the vowel detector
\* returns absent.
C6_SilenceYieldsNothing ==
    (DOMAIN detected # {} /\ detected.buffer.amp = 0)
    => /\ detected.volume = 0
       /\ detected.pitch = NO_PITCH
       /\ detected.vowel = NULL

\* C9: detectVowelEnsemble follows the decision table on (LPC result, MFCC
\* result): both absent gives absent; exactly one absent gives the other; both
\* present and equal gives that vowel; both present and different gives the
\* MFCC result.
C9_DecisionTable ==
    DOMAIN detected # {} =>
        LET lpc == detected.lpc
            mfcc == detected.mfcc
        IN  /\ (lpc = NULL /\ mfcc = NULL) => detected.vowel = NULL
            /\ (lpc = NULL /\ mfcc # NULL) => detected.vowel = mfcc
            /\ (lpc # NULL /\ mfcc = NULL) => detected.vowel = lpc
            /\ (lpc # NULL /\ mfcc = lpc) => detected.vowel = lpc
            /\ (lpc # NULL /\ mfcc # NULL /\ mfcc # lpc) => detected.vowel = mfcc

\* The two detectors disagree, and the ensemble returns the MFCC result.
C9_Witness ==
    /\ DOMAIN detected # {}
    /\ detected.lpc = "a"
    /\ detected.mfcc = "i"
    /\ detected.vowel = "i"

\* C10: until calibrateMfccTemplates has been called with at least one
\* template, detectVowelMfcc returns absent for every buffer and sample rate,
\* and detectVowelEnsemble returns exactly the LPC detector's result.
C10_UncalibratedMfccAbsent ==
    ~calibrated =>
        \A buffer \in ModelBuffers, r \in 1..Len(ModelRates) :
            /\ detectVowelMfcc(buffer, ModelRates[r], mfccTemplates) = NULL
            /\ detectVowelEnsemble(buffer, ModelRates[r], mfccTemplates)
                   = detectVowel(buffer, ModelRates[r])

\* Uncalibrated, a loud buffer with a cepstral vector: the MFCC scorer is
\* absent and the ensemble returns the LPC detector's 'a'.
C10_Witness ==
    /\ ~calibrated
    /\ DOMAIN detected # {}
    /\ computeMfcc(detected.buffer, detected.sampleRate) # NO_MFCC
    /\ detected.mfcc = NULL
    /\ detected.lpc = "a"
    /\ detected.vowel = "a"

-----------------------------------------------------------------------------
(* Claims on the capture loop (Spec) *)

\* The closure states after the first k of the frames, from a fresh pipeline.
RECURSIVE Replay(_, _)
Replay(frames, k) ==
    IF k = 0 THEN buildPipeline
    ELSE analyze(frames[k], Replay(frames, k - 1), mfccTemplates).states

\* C7: after stop() followed by a completed start(), the voicing state, the
\* smoothing window and the duration state equal their declared initial values
\* whatever was processed before, and from then on they and the feature records
\* are those of a fresh pipeline fed only the frames delivered since that
\* start() completed (frameHist).
C7_RestartReinitializes ==
    LET n == Len(frameHist)
        states == [voicing |-> voicingState, smoothing |-> smoothingState,
                   duration |-> durationState]
    IN  /\ (restartPhase = 3 /\ n = 0) =>
               /\ voicingState = initialVoicingState
               /\ smoothingState = initialVowelSmoothingState
               /\ durationState = initialDurationState
        /\ states = Replay(frameHist, n)
        /\ (restartPhase = 3 /\ n > 0) =>
               features = analyze(frameHist[n], Replay(frameHist, n - 1),
                                  mfccTemplates).features

\* A session analyzed frames and was stopped; the next start() has completed
\* and its first frame was analyzed as the first frame of a fresh pipeline.
C7_Witness ==
    /\ restartPhase = 3
    /\ Len(frameHist) = 1
    /\ frameHist[1].buffer = Wave(FFT_SIZE, 20, 147, "i", CepI)
    /\ voicingState = [isVoicing |-> FALSE, framesAbove |-> 1, framesBelow |-> 0]
    /\ smoothingState.buffer = <<NULL>>
    /\ features.duration = 0

\* C8 as stated: once stop() has returned, no subscriber callback is invoked
\* with a feature record until start() is called again.
C8_StopEndsDelivery == ~deliveredAfterStop

-----------------------------------------------------------------------------
(* Claims on the eligibility set and the rank fusion (SpecFusion) *)

\* detectVowel has run on the frame, and the frame passed the energy gate.
FusedFrame ==
    /\ "lpc" \in DOMAIN detected
    /\ computeRMS_dsp(detected.buffer) >= ENERGY_THRESHOLD

\* The sum of 1 / (10 + rank) over the three rankings, times 720720.
ExactFused(env, v) ==
    LET ranks == RanksOf(env, v)
    IN  720720 \div (10 + ranks[1]) + 720720 \div (10 + ranks[2])
            + 720720 \div (10 + ranks[3])

\* The vowels with a peak within 1.5 Bark of the target F1 and a peak within
\* 2.0 Bark of the target F2, or with both band-energy ratios above their
\* floors.
StatedEligible(env) ==
    {v \in Vowel :
        LET target == VOWEL_TARGETS[TargetIndex(v)]
        IN  \/ /\ \E p \in env.peaks : Abs(hzToBark(p) - hzToBark(target.f1)) <= 150
               /\ \E q \in env.peaks : Abs(hzToBark(q) - hzToBark(target.f2)) <= 200
            \/ /\ env.ratio[target.f1] > 80
               /\ env.ratio[target.f2] > 40}

\* C11: for a frame that passes the energy gate, detectVowel returns absent
\* if and only if the eligibility set is empty; otherwise it returns an
\* eligible vowel whose fused score, the sum of 1 / (10 + rank) over the
\* band-energy, template and proximity rankings, is maximal among the eligible
\* vowels.
C11_FusionAmongEligible ==
    FusedFrame =>
        LET env == detected.buffer.env
            among == StatedEligible(env)
        IN  /\ detected.lpc = NULL <=> among = {}
            /\ detected.lpc # NULL =>
                   /\ detected.lpc \in among
                   /\ \A u \in among :
                          ExactFused(env, u) <= ExactFused(env, detected.lpc)

\* Several vowels are eligible, and an ineligible vowel has a greater fused
\* score than the vowel returned.
C11_Witness ==
    /\ FusedFrame
    /\ detected.lpc # NULL
    /\ Cardinality(StatedEligible(detected.buffer.env)) >= 2
    /\ \E u \in Vowel \ StatedEligible(detected.buffer.env) :
           ExactFused(detected.buffer.env, u)
               > ExactFused(detected.buffer.env, detected.lpc)

\* C19: a vowel is eligible if and only if (some peak lies within 1.5 Bark of
\* its target F1 and some peak within 2.0 Bark of its target F2) or (the band
\* energy ratio around its target F1 exceeds 0.08 and the ratio around its
\* target F2 exceeds 0.04); one exceeded floor alone does not make a vowel
\* eligible, and only an eligible vowel is returned.
C19_EligibilitySet ==
    FusedFrame =>
        LET env == detected.buffer.env
        IN  /\ eligible(env) = StatedEligible(env)
            /\ detected.lpc # NULL => detected.lpc \in StatedEligible(env)
            /\ \A k \in 1..Len(VOWEL_TARGETS) :
                   (/\ ~peakGate(env, VOWEL_TARGETS[k])
                    /\ \/ env.ratio[VOWEL_TARGETS[k].f1] <= 80
                       \/ env.ratio[VOWEL_TARGETS[k].f2] <= 40)
                   => VOWEL_TARGETS[k].vowel \notin eligible(env)

\* With no peak, /o/ is eligible by its two band energies alone, and /u/,
\* whose F2 band exceeds its floor but whose F1 band does not, is not.
C19_Witness ==
    /\ FusedFrame
    /\ detected.buffer.env.peaks = {}
    /\ detected.buffer.env.ratio[700] > 40
    /\ detected.buffer.env.ratio[310] <= 80
    /\ eligible(detected.buffer.env) = {"o"}
    /\ detected.lpc = "o"

-----------------------------------------------------------------------------
(* Claims on the energy gate and the pitch detector (SpecDetect) *)

\* C12: for every buffer whose RMS energy is below 0.01, detectVowel returns
\* absent, analyzeFormants returns vowel absent and no formant payload, and
\* computeMfcc and detectVowelMfcc return absent; a buffer whose RMS is exactly
\* 0.01 is not gated: it gets its cepstral vector, its formant payload and the
\* vowel of the rank fusion.
C12_EnergyGate ==
    "lpc" \in DOMAIN detected =>
        LET rms == RootMeanSquare(detected.buffer)
        IN  /\ rms < 100 =>
                   /\ detected.lpc = NULL
                   /\ detected.formantVowel = NULL
                   /\ detected.formants = NULL
                   /\ detected.cepstrum = NO_MFCC
                   /\ detected.mfcc = NULL
            /\ rms = 100 =>
                   /\ detected.lpc = fuseEligible(detected.buffer.env)
                   /\ detected.formants # NULL
                   /\ detected.formantVowel = detected.buffer.blend
                   /\ detected.cepstrum = detected.buffer.cep

\* A calibrated MFCC scorer and a frame below the gate whose envelope and
\* cepstral vector are those of a clear /a/: every detector is absent.
C12_Witness ==
    /\ "lpc" \in DOMAIN detected
    /\ mfccTemplates # <<>>
    /\ RootMeanSquare(detected.buffer) = 50
    /\ detected.buffer.env = EnvelopeOf("a")
    /\ detected.buffer.cep = CepA
    /\ detected.lpc = NULL
    /\ detected.mfcc = NULL
    /\ detected.vowel = NULL

\* C13: detectPitch returns absent whenever the buffer holds fewer than
\* 2 * maxLag samples, where maxLag = floor(sampleRate / 80).
C13_ShortBufferNoPitch ==
    "pitch" \in DOMAIN detected =>
        (detected.buffer.len < 2 * (detected.sampleRate \div 80)
            => detected.pitch = NO_PITCH)

\* A loud 300 Hz square wave in 1024 samples at 44100 Hz, 78 samples short of
\* 2 * maxLag = 1102, has no pitch.
C13_Witness ==
    /\ "pitch" \in DOMAIN detected
    /\ detected.sampleRate = 44100
    /\ detected.buffer.len = 1024
    /\ detected.buffer.period = 147
    /\ detected.buffer.amp = 20
    /\ detected.pitch = NO_PITCH

\* C14: every non-absent result of detectPitch is a frequency f with
\* 80 <= f <= 600 Hz, for every buffer and sample rate.
C14_PitchInBand ==
    ("pitch" \in DOMAIN detected /\ detected.pitch # NO_PITCH) =>
        (800 <= detected.pitch /\ detected.pitch <= 6000)

\* A 300 Hz square wave is detected in the band, at 299.9 Hz.
C14_Witness ==
    /\ "pitch" \in DOMAIN detected
    /\ detected.buffer.len = FFT_SIZE
    /\ detected.buffer.period = 147
    /\ detected.sampleRate = 44100
    /\ detected.pitch = 2999

-----------------------------------------------------------------------------
(* Claims on the Levinson-Durbin recursion (SpecLevinson) *)

\* C15 as stated: when R[0] = 0 levinsonDurbin returns LPC_ORDER zero
\* coefficients and gain 1 without entering the recursion, and when R[0] > 0
\* the error term E is strictly positive at every pass that divides by it.
C15_DivisorPositive ==
    recursion # <<>> =>
        /\ IsZero(recursion.R[1]) =>
               /\ recursion.returned
               /\ recursion.i = 0
               /\ \A j \in 1..LPC_ORDER : IsZero(recursion.a[j])
               /\ recursion.gain = Num(1)
        /\ (StrictlyPositive(recursion.R[1]) /\ recursion.i < LPC_ORDER)
               => StrictlyPositive(recursion.E)

-----------------------------------------------------------------------------
(* Claims on the log-ratio classifier (SpecRatios) *)

\* classifyVowelByRatios has run on the triple and on the scaled triple.
RatiosClassified == "plain" \in DOMAIN detected

-----------------------------------------------------------------------------
(* Claims on raw evidence and duration in the pipeline (SpecHold) *)

\* The frame r frames before the end of the history was analyzed with
\* isVoicing true.
VoicedBefore(r) ==
    /\ Len(durHist) > r
    /\ durHist[Len(durHist) - r].isVoicing

\* The sum of dt over the run of frames with isVoicing true that ends with the
\* last frame.
HeldDuration ==
    LET voiced == [i \in 1..Len(durHist) |-> durHist[i].isVoicing]
        k == TrailingRun(voiced, TRUE)
        run == LastN(frameHist, k)
    IN  SumTo([i \in 1..k |-> run[i].dt], k)

\* C17: in the pipeline the duration is 0 during the first two raw-true frames
\* of an onset, starts accumulating on the frame where isVoicing becomes true,
\* i.e. the third, and keeps accumulating dt during up to 4 consecutive
\* raw-false frames, over which isVoicing is held true.
C17_DurationFollowsFiltered ==
    frameHist # <<>> =>
        LET n == Len(frameHist)
            above == TrailingRun(rawHist, TRUE)
            below == TrailingRun(rawHist, FALSE)
        IN  /\ (above \in 1..2 /\ ~VoicedBefore(above))
                   => (~features.isVoicing /\ features.duration = 0)
            /\ (above = 3 /\ ~VoicedBefore(above))
                   => (features.isVoicing /\ features.duration = frameHist[n].dt)
            /\ (below \in 1..4 /\ VoicedBefore(below))
                   => /\ features.isVoicing
                      /\ features.duration = HeldDuration
                      /\ features.duration >= below * TickMs

\* Three voiced frames and four loud frames without pitch, 16 ms apart: the
\* duration counts the third frame and the four held ones.
C17_Witness ==
    /\ rawHist = <<TRUE, TRUE, TRUE, FALSE, FALSE, FALSE, FALSE>>
    /\ \A i \in 4..7 : frameHist[i].buffer.period = 2000
    /\ features.isVoicing
    /\ features.duration = 5 * TickMs

\* C18: in the pipeline a frame is raw-true if and only if its volume is
\* strictly greater than 0.01 and its pitch is present; a frame whose volume is
\* exactly 0.01, or whose pitch is absent, is raw-false.
C18_RawEvidence ==
    frameHist # <<>> =>
        /\ Last(rawHist) <=> (features.volume > 100 /\ features.pitch # NO_PITCH)
        /\ features.volume = 100 => ~Last(rawHist)
        /\ features.pitch = NO_PITCH => ~Last(rawHist)
        /\ voicingState = updateVoicing(
               features.volume > 100 /\ features.pitch # NO_PITCH,
               [isVoicing |-> IF Len(durHist) > 1
                              THEN durHist[Len(durHist) - 1].isVoicing ELSE FALSE,
                framesAbove |-> IF VoicedBefore(1) THEN 0
                                ELSE TrailingRun(SubSeq(rawHist, 1, Len(rawHist) - 1),
                                                 TRUE),
                framesBelow |-> IF VoicedBefore(1)
                                THEN TrailingRun(SubSeq(rawHist, 1, Len(rawHist) - 1),
                                                 FALSE)
                                ELSE 0])

\* After two voiced frames, a frame with a pitch and a volume of exactly 0.01
\* is raw-false and the onset starts over.
C18_Witness ==
    /\ Len(frameHist) = 3
    /\ frameHist[3].buffer.amp = 10
    /\ features.volume = 100
    /\ features.pitch # NO_PITCH
    /\ rawHist = <<TRUE, TRUE, FALSE>>
    /\ voicingState.framesAbove = 0
    /\ ~features.isVoicing

-----------------------------------------------------------------------------
(* Claims on the smoothing window (SpecSmooth) *)

\* C20: after n smoothVowel calls from the initial state the buffer holds
\* exactly the last min(n, 7) raw detections in arrival order, absent entries
\* included; its length never exceeds 7, and a call on a full buffer has
\* evicted exactly the oldest entry.
C20_WindowIsFifo ==
    LET n == Len(detHist)
        buffer == smoothingState.buffer
    IN  /\ Len(buffer) = (IF n < 7 THEN n ELSE 7)
        /\ Len(buffer) <= 7
        /\ \A i \in 1..Len(buffer) : buffer[i] = detHist[n - Len(buffer) + i]
        /\ n > 7 => buffer = Append(Tail(SubSeq(detHist, n - 7, n - 1)), detHist[n])

\* The eighth call, on a full window that starts with /a/ and an absent entry:
\* the /a/ is gone, the absent entry is now the oldest and the new detection
\* the newest.
C20_Witness ==
    /\ Len(detHist) = 8
    /\ detHist[1] = "a"
    /\ detHist[2] = NULL
    /\ detHist[7] = "i"
    /\ detHist[8] = "a"
    /\ smoothingState.buffer = Tail(detHist)
    /\ smoothingState.buffer[1] = NULL
    /\ smoothingState.buffer[6] = "i"

-----------------------------------------------------------------------------
(* Claims on the recency weights (SpecSmooth) *)

\* The weight of the entry i places before the newest one (0 = the newest).
WeightFromNewest(i) == WEIGHTS[WINDOW_SIZE - i]

\* The weighted sum of v over the window, each entry weighted by its distance
\* from the newest entry.
SumFromNewest(buffer, v) ==
    SumTo([i \in 1..Len(buffer) |->
              IF buffer[i] = v THEN WeightFromNewest(Len(buffer) - i) ELSE 0],
          Len(buffer))

\* C21: in a window of length L <= 7 the entry at index i (0 = oldest) weighs
\* WEIGHTS[i + 7 - L], so the newest entry weighs 1.00 and the one before it
\* 0.85 whatever the fill; from a fresh state one detection of a vowel yields
\* absent and two consecutive detections of the same vowel yield that vowel.
C21_WeightsRightAligned ==
    detHist # <<>> =>
        LET buffer == smoothingState.buffer
            newest == Last(buffer)
        IN  /\ Len(buffer) <= 7
            /\ WeightFromNewest(0) = 1000 /\ WeightFromNewest(1) = 850
            /\ smoothed # NULL
                   => /\ SumFromNewest(buffer, smoothed) >= 1500
                      /\ \A u \in Vowel :
                             SumFromNewest(buffer, u) <= SumFromNewest(buffer, smoothed)
            /\ smoothed = NULL
                   => \A u \in Vowel : SumFromNewest(buffer, u) < 1500
            /\ (Len(detHist) = 1 /\ newest # NULL) => smoothed = NULL
            /\ (Len(detHist) = 2 /\ newest # NULL /\ buffer[1] = newest)
                   => smoothed = newest
            /\ (Len(buffer) >= 2 /\ newest # NULL
                    /\ buffer[Len(buffer) - 1] = newest)
                   => smoothed # NULL

\* The second call from a fresh state, both detections /a/: the window holds two
\* entries, weighted 0.85 and 1.00, and /a/ is emitted.
C21_Witness ==
    /\ detHist = <<"a", "a">>
    /\ smoothingState.buffer = <<"a", "a">>
    /\ SumFromNewest(smoothingState.buffer, "a") = 1850
    /\ smoothed = "a"

-----------------------------------------------------------------------------
(* Claims on the band-energy scorer (SpecBands) *)

BandsScored == "bandScores" \in DOMAIN detected

\* The sum of the envelope over the bins whose frequency is within reach Hz
\* of hz.
EnergyWithinHz(envelope, sampleRate, hz, reach) ==
    SumTo([i \in 1..Len(envelope) |->
              IF Abs((i - 1) * sampleRate - hz * FftSizeOf(envelope))
                     <= reach * FftSizeOf(envelope)
              THEN envelope[i] ELSE 0], Len(envelope))

\* The sum of the envelope over the bins at most ceil(50 Hz / bin width) bins
\* away from the bin nearest hz.
EnergyAroundBin(envelope, sampleRate, hz) ==
    SumTo([i \in 1..Len(envelope) |->
              IF Abs(2 * sampleRate * (i - 1)
                         - 2 * sampleRate
                             * ((2 * hz * FftSizeOf(envelope) + sampleRate)
                                    \div (2 * sampleRate)))
                     < 100 * FftSizeOf(envelope) + 2 * sampleRate
              THEN envelope[i] ELSE 0], Len(envelope))

\* The ranking holds every vowel of the catalogue exactly once, and no vowel
\* comes before a vowel of greater score.
FullDescendingRanking(ranking) ==
    /\ Len(ranking) = Cardinality(Vowel)
    /\ \A v \in Vowel :
           Cardinality({k \in 1..Len(ranking) : ranking[k].vowel = v}) = 1
    /\ \A j, k \in 1..Len(ranking) :
           j < k => ranking[j].score >= ranking[k].score

\* C22 as stated: each vowel's score is (2 * E(F1) + E(F2) + 0.5 * E(F3)) /
\* total energy with E(f) the sum of the envelope over the bins within 100 Hz
\* of f on either side, and the ranking holds every vowel once in descending
\* score order.  Scores are compared times 2 * total energy.
C22_AsStated ==
    BandsScored =>
        /\ FullDescendingRanking(detected.bandScores)
        /\ \A k \in 1..Len(detected.bandScores) :
               LET target == VOWEL_TARGETS[TargetIndex(detected.bandScores[k].vowel)]
               IN  detected.bandScores[k].score =
                       4 * EnergyWithinHz(detected.envelope, detected.sampleRate,
                                          target.f1, 100)
                       + 2 * EnergyWithinHz(detected.envelope, detected.sampleRate,
                                            target.f2, 100)
                       + EnergyWithinHz(detected.envelope, detected.sampleRate,
                                        target.f3, 100)

\* C22 amended: E(f) is the sum of the envelope over the bins at most
\* ceil(50 Hz / bin width) bins away from the bin nearest f, a band about
\* 100 Hz wide in all.
C22_BandOfHundredHz ==
    BandsScored =>
        /\ FullDescendingRanking(detected.bandScores)
        /\ \A k \in 1..Len(detected.bandScores) :
               LET target == VOWEL_TARGETS[TargetIndex(detected.bandScores[k].vowel)]
               IN  detected.bandScores[k].score =
                       4 * EnergyAroundBin(detected.envelope, detected.sampleRate,
                                           target.f1)
                       + 2 * EnergyAroundBin(detected.envelope, detected.sampleRate,
                                             target.f2)
                       + EnergyAroundBin(detected.envelope, detected.sampleRate,
                                         target.f3)

\* Energy at 600 Hz only, 50 Hz above the F1 of /E/ and 100 Hz below the F1 of
\* /a/: it counts for /E/, which is ranked first, and not for /a/, which
\* follows with a score of 0.
C22_Witness ==
    /\ BandsScored
    /\ \A i \in 1..Len(detected.envelope) :
           detected.envelope[i] = (IF i = 13 THEN 4 ELSE 0)
    /\ detected.bandScores[1] = [vowel |-> "E", score |-> 16]
    /\ detected.bandScores[2] = [vowel |-> "a", score |-> 0]
    /\ EnergyWithinHz(detected.envelope, detected.sampleRate, 700, 100) = 4

-----------------------------------------------------------------------------
(* Claims on ties of the rank fusion (SpecFusion) *)

\* The eligible vowels whose fused score is maximal among the eligible ones.
TopFused(env) ==
    {v \in StatedEligible(env) :
        \A u \in StatedEligible(env) : ExactFused(env, u) <= ExactFused(env, v)}

\* C23: band energy breaks fusion ties: when two or more eligible vowels have
\* the same maximal fused score, detectVowel returns the one among them that
\* the band-energy scorer ranks highest.
C23_BandBreaksTies ==
    FusedFrame =>
        LET env == detected.buffer.env
        IN  Cardinality(TopFused(env)) >= 2 =>
                /\ detected.lpc \in TopFused(env)
                /\ \A u \in TopFused(env) :
                       RankOf(env.band, detected.lpc) <= RankOf(env.band, u)

-----------------------------------------------------------------------------
(* Claims on the order of the stages within a frame (SpecHold) *)

\* The voicing state after updateVoicing has seen the raw evidence raws, one
\* call per entry, from the initial state.
VoicingAfter(raws) ==
    LET st[i \in 0..Len(raws)] ==
            IF i = 0 THEN initialVoicingState
            ELSE updateVoicing(raws[i], st[i - 1])
    IN  st[Len(raws)]

\* C24: pipe applies its processors left to right, each exactly once per frame
\* and each on the merged outputs of the earlier ones, a later value of a key
\* overriding an earlier one: the voicing processor reads the volume and the
\* pitch of the current frame, the smoothing and duration processors read the
\* isVoicing the voicing processor computed for the current frame, and the
\* vowel of the record is the smoothed one.
C24_StageOrder ==
    frameHist # <<>> =>
        LET n == Len(frameHist)
            frame == frameHist[n]
        IN  /\ Len(rawHist) = n /\ Len(detHist) = n /\ Len(durHist) = n
            /\ DOMAIN features =
                   {"volume", "pitch", "vowel", "formants", "isVoicing", "duration"}
            /\ features.volume = computeRMS(frame.buffer)
            /\ features.pitch = detectPitchTabled(frame.buffer, frame.sampleRate)
            /\ Last(rawHist) = isRawVoicing(features.volume, features.pitch,
                                            VOICING_THRESHOLD)
            /\ features.isVoicing = VoicingAfter(rawHist).isVoicing
            /\ Last(durHist).isVoicing = features.isVoicing
            /\ Last(detHist) =
                   (IF features.isVoicing
                    THEN detectVowelEnsemble(frame.buffer, frame.sampleRate,
                                             mfccTemplates)
                    ELSE NULL)
            /\ features.vowel = (IF features.isVoicing THEN smoothed ELSE NULL)

\* The third voiced frame of an onset: isVoicing was false for the frame
\* before and is true for this one, the smoothing processor was given this
\* frame's /i/, and the record carries the smoothed vowel, still absent.
C24_Witness ==
    /\ rawHist = <<TRUE, TRUE, TRUE>>
    /\ ~durHist[2].isVoicing
    /\ durHist[3].isVoicing
    /\ detHist = <<NULL, NULL, "i">>
    /\ detectVowelEnsemble(frameHist[3].buffer, frameHist[3].sampleRate,
                           mfccTemplates) = "i"
    /\ smoothed = NULL
    /\ features.vowel = NULL
    /\ features.isVoicing

-----------------------------------------------------------------------------
(* Claims on the router (SpecRouter) *)

\* The games mounted after the first i calls: those whose last call among
\* them is a mount.
MountedAfter(i) ==
    {g \in 1..Len(games) :
        \E j \in 1..i :
            /\ calls[j] = [op |-> "mount", game |-> g]
            /\ \A k \in (j + 1)..i : calls[k].game # g}

\* C25: after any sequence of navigate calls and hashchange events at most one
\* game is mounted and getCurrentGame() returns it; the previous game was
\* unmounted before the next one was mounted; the mount and unmount calls of
\* each game alternate strictly, starting with mount.
C25_OneGameMounted ==
    /\ \A i \in 0..Len(calls) : Cardinality(MountedAfter(i)) <= 1
    /\ MountedAfter(Len(calls)) =
           (IF currentGame = NO_GAME THEN {} ELSE {currentGame})
    /\ \A i \in 1..Len(calls) :
           /\ calls[i].op = "mount" => MountedAfter(i - 1) = {}
           /\ calls[i].op = "unmount" => MountedAfter(i - 1) = {calls[i].game}

\* The menu was left for the second game, and the hashchange event of that
\* navigation made the router unmount and mount the second game again.
C25_Witness ==
    /\ calls = <<[op |-> "mount", game |-> 1], [op |-> "unmount", game |-> 1],
                 [op |-> "mount", game |-> 2], [op |-> "unmount", game |-> 2],
                 [op |-> "mount", game |-> 2]>>
    /\ currentGame = 2
    /\ locationHash = "rocket"

-----------------------------------------------------------------------------
(* Claims on the counters of the voicing state (SpecVoicing) *)

\* The counters are within their ranges, and the counter of the other
\* direction is 0.
CountersInRange(state) ==
    /\ state.framesAbove \in 0..2
    /\ state.framesBelow \in 0..4
    /\ state.isVoicing => state.framesAbove = 0
    /\ ~state.isVoicing => state.framesBelow = 0

\* C26: in every reachable voicing state framesAbove is in 0..2 and
\* framesBelow in 0..4, framesAbove is 0 while isVoicing is true and
\* framesBelow is 0 while it is false, and both counters are 0 right after
\* every change of isVoicing.
C26_CountersBounded ==
    /\ []CountersInRange(voicingState)
    /\ [][voicingState'.isVoicing # voicingState.isVoicing =>
              voicingState'.framesAbove = 0 /\ voicingState'.framesBelow = 0]_vars

\* Voicing started on the third raw-true frame and has been held through four
\* raw-false frames: the offset counter is at its maximum.
C26_Witness ==
    /\ rawHist = <<TRUE, TRUE, TRUE, FALSE, FALSE, FALSE, FALSE>>
    /\ voicingState = [isVoicing |-> TRUE, framesAbove |-> 0, framesBelow |-> 4]

-----------------------------------------------------------------------------
(* Claims on the feature record of an unvoiced frame (SpecHold) *)

\* C27: in every feature record the pipeline emits, isVoicing = false implies
\* that the vowel is absent and the duration is 0, even when the raw detector
\* found a vowel or the smoothing window still holds a consensus for one.
C27_UnvoicedRecordEmpty ==
    (frameHist # <<>> /\ ~features.isVoicing) =>
        features.vowel = NULL /\ features.duration = 0

\* Voicing has just been released on the fifth raw-false frame: the detector
\* found a vowel in the frame and smoothVowel still returned a consensus
\* vowel, and the record carries no vowel and a duration of 0.
C27_Witness ==
    /\ rawHist = <<TRUE, TRUE, TRUE, FALSE, FALSE, FALSE, FALSE, FALSE>>
    /\ durHist[7].isVoicing
    /\ ~features.isVoicing
    /\ detectVowelEnsemble(frameHist[8].buffer, frameHist[8].sampleRate,
                           mfccTemplates) # NULL
    /\ smoothed # NULL
    /\ features.vowel = NULL
    /\ features.duration = 0

-----------------------------------------------------------------------------
(* Claims on the stability of isVoicing (SpecVoicing) *)

\* isVoicing after each of the frames seen so far.
VoicedFrames ==
    [i \in 1..Len(rawHist) |-> VoicingAfter(SubSeq(rawHist, 1, i)).isVoicing]

\* C28: once isVoicing becomes true it stays true for at least 5 consecutive
\* frames, and once it becomes false it stays false for at least 3
\* consecutive frames, the frame of the change included.
C28_NoFlicker ==
    \A voiced \in {VoicedFrames} :
        /\ rawHist # <<>> => Last(voiced) = voicingState.isVoicing
        /\ \A i \in 1..Len(voiced) :
               (voiced[i] # (IF i = 1 THEN FALSE ELSE voiced[i - 1])) =>
                   \A j \in i..Min(Len(voiced), i + (IF voiced[i] THEN 4 ELSE 2)) :
                       voiced[j] = voiced[i]

\* Voicing started on frame 3, was released as early as the evidence allows,
\* on frame 8, and started again as early as the evidence allows, on frame 11.
C28_Witness ==
    /\ rawHist = <<TRUE, TRUE, TRUE, FALSE, FALSE, FALSE, FALSE, FALSE,
                   TRUE, TRUE, TRUE>>
    /\ VoicedFrames = <<FALSE, FALSE, TRUE, TRUE, TRUE, TRUE, TRUE,
                        FALSE, FALSE, FALSE, TRUE>>
    /\ voicingState.isVoicing

-----------------------------------------------------------------------------
(* Claims on the analysis loop (Spec) *)

\* C29: after any sequence of start() and stop() calls on one pipeline, two
\* start() calls with no stop() in between included, at most one analysis loop
\* is scheduled: at most one analysisLoop callback is requested or due, so
\* that an animation frame feeds one frame to the processors and notifies each
\* subscriber once.
C29_SingleLoop == Cardinality(scheduled \cup due) <= 1

-----------------------------------------------------------------------------
(* Claims on the latency of the vowel at an onset (SpecHold) *)

\* Every frame so far was raw-true and the raw detector found the vowel v in it.
SteadyOnset(v) ==
    /\ frameHist # <<>>
    /\ \A i \in 1..Len(rawHist) : rawHist[i]
    /\ \A i \in 1..Len(frameHist) :
           detectVowelEnsemble(frameHist[i].buffer, frameHist[i].sampleRate,
                               mfccTemplates) = v

\* C30: in a freshly started pipeline fed consecutive raw-true frames whose
\* raw detection is always the same vowel, the emitted vowel is absent on
\* frames 1 to 3 and present from frame 4: frames 1 and 2 push absent entries
\* into the smoothing window while isVoicing is still false, and the single
\* voiced entry of frame 3 weighs 1.00 < 1.5.
C30_OnsetLatency ==
    \A v \in Vowel :
        SteadyOnset(v) =>
            LET n == Len(frameHist)
            IN  /\ n <= 3 => features.vowel = NULL
                /\ n >= 4 => features.vowel = v
                /\ n <= 2 => ~features.isVoicing /\ Last(detHist) = NULL
                /\ n = 3 => /\ features.isVoicing
                            /\ smoothingState.buffer = <<NULL, NULL, v>>
                            /\ WeightedCount(smoothingState.buffer, v) = 1000
                            /\ 1000 < MIN_WEIGHTED_CONSENSUS

\* The fourth frame of a steady /i/: the window holds two absent entries and
\* two /i/, and the record carries /i/ for the first time.
C30_Witness ==
    /\ SteadyOnset("i")
    /\ Len(frameHist) = 4
    /\ smoothingState.buffer = <<NULL, NULL, "i", "i">>
    /\ features.vowel = "i"

====
